---- MODULE Spec2Model ----
(***************************************************************************)
(* A model of anyrun's plugin execution machinery:                         *)
(*   - the per-plugin match task scheduler generated by the plugin macros  *)
(*     (anyrun-macros/src/lib.rs, anyrun-plugin/src/lib.rs): the id        *)
(*     counter, the tracked (JoinHandle, id) slot behind its mutex, the     *)
(*     spawned match computations, the background initialisation and the   *)
(*     plugin data behind its lock;                                        *)
(*   - the callers of that machinery, step by step, so that calls made on  *)
(*     different threads interleave;                                       *)
(*   - the in-process host (anyrun/src/main.rs): refresh_matches, the      *)
(*     async_match polling callbacks, handle_matches and the Return key;   *)
(*   - the orchestrator (anyrun/src/app.rs) and its plugin boxes           *)
(*     (anyrun/src/plugin_box.rs): Responses, Enable and result messages;  *)
(*   - the IPC worker (anyrun/src/provider.rs, anyrun/src/socket.rs) that  *)
(*     relays the orchestrator's requests and the provider's responses.    *)
(***************************************************************************)
EXTENDS Integers, Sequences, FiniteSets, TLC

\* ------------------------------------------------------------------ bounds
\* How many match computations (get_matches calls) a run may start in all:
\* under one caller thread, under several caller threads, and while the
\* plugin's initialisation is still under way.
MaxTasks == 3
MaxConcTasks == 2
MaxInitTasks == 2
\* How many times the in-process host runs refresh_matches in a run.
MaxRefreshes == 2
\* How many times it does so where the main loop is fair: the text changes at most
\* MaxRefreshes times, the rest are Return keys.
MaxRounds == 3
\* How many messages the orchestrator handles in a run.
MaxAppMsgs == 3
\* Queries whose results are handled in both arrival orders.
MaxQueries == 2
\* The largest max_entries the configuration is given.
MaxShown == 2
\* Responses the provider writes to the connection.
MaxResponses == 2
\* Texts the user types while the worker starts: one more than the channel holds.
MaxTyped == 11
\* The plugin references of config.plugins.
MaxConfigPlugins == 2
\* Rows the powermenu offers for a text, and selections the user makes in it.
MaxMenuRows == 2
MaxSelections == 3
\* config.max_entries of the randr plugin.
MaxRandrEntries == 2

\* ------------------------------------------------------------- universes
Plugins == {"A", "B"}
\* The plugin the scheduler-level specifications exercise.
SchedPlugin == "A"
\* Caller threads: the threads of the host that call the plugin's entry points.
Threads == {"t1", "t2"}
\* The single thread of a host whose calls never overlap.
MainThread == "t1"
\* Texts typed by the user.
Queries == {"fi", "fir"}
Largest(S) == CHOOSE n \in S : \A m \in S : m <= n
\* The plugins in the order the configuration lists them.
PluginOrder == << "A", "B" >>
Handles == 1..Largest({MaxTasks, MaxConcTasks, MaxInitTasks, MaxRefreshes * Len(PluginOrder),
                       MaxRounds * Len(PluginOrder)})

\* The three shapes the generated code takes:
\*   "attr_ref": anyrun-macros, data argument `&T`     (RwLock, read())
\*   "attr_mut": anyrun-macros, data argument `&mut T` (RwLock, write())
\*   "decl":     anyrun-plugin's plugin! macro          (Mutex, lock())
Builds == {"attr_ref", "attr_mut", "decl"}

\* Option::None of the tracked-thread slot; Some((handle, id)) is <<handle, id>>.
None == <<>>
Some(h, id) == <<h, id>>

\* anyrun_interface::HandleResult
HandleResults ==
    { [kind |-> "Close", arg |-> FALSE],
      [kind |-> "Refresh", arg |-> TRUE],
      [kind |-> "Refresh", arg |-> FALSE],
      [kind |-> "Copy", arg |-> FALSE],
      [kind |-> "Stdout", arg |-> FALSE] }

\* The plugin author's get_matches function (the macro's #fn_name / $get_matches):
\* what it answers for an input once the plugin data exists.
UserMatches(q) == <<q>>

VARIABLES
    build,                      \* which generated code this plugin library holds
    ANYRUN_INTERNAL_ID_COUNTER, \* [Plugins -> Nat], AtomicU64
    ANYRUN_INTERNAL_THREAD,     \* [Plugins -> None or Some(handle, id)]
    threadLock,                 \* [Plugins -> the thread holding the slot's Mutex, or "free"]
    ANYRUN_INTERNAL_DATA,       \* [Plugins -> BOOLEAN]: Some(data) / None
    dataLock,                   \* [Plugins -> [writer, readers]] holders of the data lock
    poisoned,                   \* [Plugins -> BOOLEAN]: a holder panicked with the lock held exclusively
    initThread,                 \* [Plugins -> position of the thread anyrun_internal_init spawned]
    threads,                    \* [Handles -> the spawned match computation of that JoinHandle]
    pc,                         \* [Threads -> position of the caller thread]
    loc,                        \* [Threads -> locals of the call in progress]
    ret,                        \* [Threads -> what the thread's last call returned]
    aborted,                    \* the process was aborted by a panic in an extern "C" entry point
    issued,                     \* history: [Plugins -> ids returned by get_matches, in return order]
    delivered,                  \* history: [Plugins -> ids some poll_matches returned Ready for]
    \* ---- the in-process host (main.rs)
    hostPc,                     \* where the GTK main thread stands between and inside its callbacks
    entry,                      \* the text of the entry box
    exclusive,                  \* RuntimeData.exclusive: None or Some(plugin), as <<>> or <<plugin>>
    max_entries,                \* Config.max_entries: None or Some(n), as <<>> or <<n>>
    todo,                       \* the plugins refresh_matches' loop has still to visit
    timeouts,                   \* the registered polling callbacks: pairs <<plugin, id>>
    cur,                        \* the callback (or the plugin of the selection) being served
    list,                       \* [Plugins -> the rows of the plugin's list box]
    row_visible,                \* [Plugins -> whether the plugin's row is shown]
    selected,                   \* [Plugins -> index of the selected row of its list, 0 for none]
    window_closed,              \* window.close() was called
    refreshes,                  \* how many times refresh_matches has run
    \* ---- the orchestrator (app.rs) and its plugin boxes (plugin_box.rs)
    plugin_boxes,               \* App.plugins: [Plugins -> [enabled, visible, id, matches]]
    inbox,                      \* [Plugins -> the PluginBoxInput messages sent to the box, unhandled]
    commands,                   \* [Plugins -> outputs <<id, matches>> of the box's spawned commands]
    app_inputs,                 \* the AppMsg messages sent to the App, unhandled
    tx,                         \* the requests sent into the worker's channel
    app_entry,                  \* widgets.entry.text()
    app_selected,               \* [Plugins -> index of the selected row of the box's list, 0 for none]
    post_run_action,            \* App.post_run_action: "None" or "Stdout"
    invocation,                 \* App.invocation is Some(_): the App serves a daemon invocation
    stdout,                     \* how many times bytes were written to standard output
    shutdown,                   \* relm4::runtime_util::shutdown_all() was called
    holder,                     \* history: the plugin of the latest Refresh(true) not yet undone
    dropped,                    \* history: [Plugins -> how many results the box has discarded]
    restored,                   \* history: the plugin that was exclusive when the latest Refresh(false) came
    ending,                     \* history: a Handled with Close, Copy or Stdout has been processed
    last_result,                \* history: the latest result a box has handled, and the rows it had
    app_msgs                    \* how many user events and Responses have reached the App

schedVars == << build, ANYRUN_INTERNAL_ID_COUNTER, ANYRUN_INTERNAL_THREAD, threadLock,
                ANYRUN_INTERNAL_DATA, dataLock, poisoned, initThread, threads,
                pc, loc, ret, aborted, issued, delivered >>

hostVars == << hostPc, entry, exclusive, max_entries, todo, timeouts, cur, list,
              row_visible, selected, window_closed, refreshes >>

appVars == << plugin_boxes, inbox, commands, app_inputs, tx, app_entry, app_selected,
             post_run_action, invocation, stdout, shutdown, holder, dropped, restored,
             ending, last_result, app_msgs >>

\* What the plugin's own threads leave alone.
\* The two arrival orders of one query's results, compared on handle_matches.
VARIABLES
    results,                    \* [Plugins -> the matches of the plugin for the current query]
    handled,                    \* how many plugins' results of the current query have been handled
    alt,                        \* <<list, row_visible, selected>> under the reverse arrival order
    queries                     \* how many queries have been made

orderVars == << results, handled, alt, queries >>

\* The IPC worker (provider.rs, socket.rs), which receives from tx.
VARIABLES
    worker_fn,                  \* which worker function runs: "provider" or "socket"
    wpc,                        \* the worker's position
    conn,                       \* "up", or the error kind the connection fails with
    socket_in,                  \* the responses the provider has written and the worker has not read
    socket_out,                 \* the requests socket.send has written, in order
    emitted,                    \* the responses sender.emit has passed on, in order
    failed,                     \* history: a send or a receive failed, WouldBlock aside
    responses,                  \* how many responses the provider has written
    spawned,                    \* the outcome of Command::spawn: "pending", "Ok", "NotFound", "Other"
    spawn_reports,              \* how many times the failure of spawn has been printed
    socket_file,                \* the socket file exists
    tx_dropped                  \* the orchestrator's Sender has been dropped

workerVars == << worker_fn, wpc, conn, socket_in, socket_out, emitted, failed,
                responses, spawned, spawn_reports, socket_file, tx_dropped >>

\* The loading of the configured plugins in activate (main.rs).
VARIABLES
    config_dir,                 \* the configuration directory main worked out
    env_paths,                  \* the directories of ANYRUN_PLUGINS, in order
    existing,                   \* the paths that exist in the file system
    unloadable,                 \* the existing paths that are not a plugin library
    config_plugins,             \* config.plugins: the plugin references, in order
    load_pc,                    \* "loading", "done", or "panicked"
    collected,                  \* the plugins the loop has loaded and initialised so far
    runtime_plugins             \* runtime_data.plugins: << >> until the loop's result is stored

loaderVars == << config_dir, env_paths, existing, unloadable, config_plugins, load_pc, collected,
                runtime_plugins >>

\* The powermenu plugin (plugins/powermenu) and the rows of it on display.
VARIABLES
    power_config,               \* config: [action -> its confirm setting]
    pending_action,             \* state.pending_action: << >> or << action >>
    error_message,              \* state.error_message is Some
    pm_shown,                   \* the rows on display: the last result of get_matches
    pm_last,                    \* history: the last handler call, its selection and what it did
    pm_state,                   \* "running", "closed" after Close, "panicked"
    pm_calls                    \* how many selections have been handled

powermenuVars == << power_config, pending_action, error_message, pm_shown, pm_last, pm_state,
                   pm_calls >>

\* The randr plugin (plugins/randr) and the rows of it on display.
VARIABLES
    monitors,                   \* the ids of randr.get_monitors(), read once in init
    inner,                      \* state.inner: << >> for None, << id >> for Position(monitor)
    rr_shown,                   \* the rows on display: the last result of get_matches
    offered_in,                 \* history: state.inner when rr_shown was computed
    rr_last,                    \* history: the last handler call, its selection and what it did
    rr_state,                   \* "running", "closed" after Close, "panicked"
    rr_calls                    \* how many selections have been handled

randrVars == << monitors, inner, rr_shown, offered_in, rr_last, rr_state, rr_calls >>

pluginVars == << powermenuVars, randrVars >>

uiVars == << hostVars, appVars, orderVars, workerVars, loaderVars, pluginVars >>

\* What the host's steps and the orchestrator's steps leave alone.
offHost == << appVars, orderVars, workerVars, loaderVars, pluginVars >>
offApp == << schedVars, hostVars, orderVars, workerVars, loaderVars, pluginVars >>

vars == << schedVars, hostVars, appVars, orderVars, workerVars, loaderVars, pluginVars >>

\* ------------------------------------------------------------- helpers
FreeTask == [st |-> "free", p |-> SchedPlugin, id |-> 0, q |-> "", res |-> <<>>,
             pre |-> FALSE]
Loc0 == [p |-> SchedPlugin, input |-> "", current_id |-> 0, handle |-> 0, id |-> 0,
         stale |-> FALSE, deliv |-> FALSE, pre |-> FALSE]
Ret0 == [op |-> "none", kind |-> "none", val |-> <<>>, h |-> 0]
NoLock == [writer |-> "none", readers |-> {}]

NumSpawned == Cardinality({h \in Handles : threads[h].st # "free"})
\* Calls of get_matches that are under way and have not spawned their thread yet.
NumSpawning == Cardinality({t \in Threads : pc[t] \in {"g_load", "g_store", "g_spawn"}})

\* JoinHandle::is_finished: the thread has run to its end, by returning or by panicking.
is_finished(h) == threads[h].st \in {"finished", "panicked"}

\* Whether `who` may take the data lock now: shared for RwLock::read, exclusive
\* for RwLock::write and Mutex::lock.
Exclusive == build \in {"attr_mut", "decl"}
CanRead(p) == dataLock[p].writer = "none"
CanWrite(p) == dataLock[p].writer = "none" /\ dataLock[p].readers = {}
CanAcquire(p) == IF Exclusive THEN CanWrite(p) ELSE CanRead(p)
Acquire(p, who) ==
    IF Exclusive THEN [dataLock EXCEPT ![p].writer = who]
    ELSE [dataLock EXCEPT ![p].readers = @ \cup {who}]
\* The name under which the computation of handle h holds the data lock.
Holder(h) == ToString(h)
Release(p, who) ==
    IF dataLock[p].writer = who THEN [dataLock EXCEPT ![p].writer = "none"]
    ELSE [dataLock EXCEPT ![p].readers = @ \ {who}]

\* An id counts as superseded once get_matches returned it and returned again later.
Superseded(p, id) ==
    \E i \in 1..Len(issued[p]) : issued[p][i] = id /\ i < Len(issued[p])

\* --------------------------------------------- anyrun_internal_get_matches
get_matches_call(t, p, q) ==
    /\ ~aborted /\ pc[t] = "idle"
    /\ pc' = [pc EXCEPT ![t] = "g_load"]
    /\ loc' = [loc EXCEPT ![t] = [Loc0 EXCEPT !.p = p, !.input = q,
                                              !.pre = ~ANYRUN_INTERNAL_DATA[p]]]
    /\ ret' = [ret EXCEPT ![t] = Ret0]
    /\ UNCHANGED << build, ANYRUN_INTERNAL_ID_COUNTER, ANYRUN_INTERNAL_THREAD, threadLock,
                    ANYRUN_INTERNAL_DATA, dataLock, poisoned, initThread, threads,
                    aborted, issued, delivered >>

\* let current_id = ANYRUN_INTERNAL_ID_COUNTER.load(Relaxed);
get_matches_load(t) ==
    /\ ~aborted /\ pc[t] = "g_load"
    /\ loc' = [loc EXCEPT ![t].current_id = ANYRUN_INTERNAL_ID_COUNTER[loc[t].p]]
    /\ pc' = [pc EXCEPT ![t] = "g_store"]
    /\ UNCHANGED << build, ANYRUN_INTERNAL_ID_COUNTER, ANYRUN_INTERNAL_THREAD, threadLock,
                    ANYRUN_INTERNAL_DATA, dataLock, poisoned, initThread, threads,
                    ret, aborted, issued, delivered >>

\* A store that forgets the increment.
NextId_same(current_id) == current_id

\* The value the counter is given.
NextId(current_id) == current_id + 1

\* ANYRUN_INTERNAL_ID_COUNTER.store(current_id + 1, Relaxed);
get_matches_store(t) ==
    /\ ~aborted /\ pc[t] = "g_store"
    /\ ANYRUN_INTERNAL_ID_COUNTER' =
           [ANYRUN_INTERNAL_ID_COUNTER EXCEPT ![loc[t].p] = NextId(loc[t].current_id)]
    /\ pc' = [pc EXCEPT ![t] = "g_spawn"]
    /\ UNCHANGED << build, ANYRUN_INTERNAL_THREAD, threadLock,
                    ANYRUN_INTERNAL_DATA, dataLock, poisoned, initThread, threads,
                    loc, ret, aborted, issued, delivered >>

\* let handle = ::std::thread::spawn(move || { ... });
get_matches_spawn(t) ==
    /\ ~aborted /\ pc[t] = "g_spawn"
    /\ LET h == NumSpawned + 1 IN
       /\ threads' = [threads EXCEPT ![h] =
                         [st |-> "start", p |-> loc[t].p, id |-> loc[t].current_id,
                          q |-> loc[t].input, res |-> <<>>, pre |-> loc[t].pre]]
       /\ loc' = [loc EXCEPT ![t].handle = h]
    /\ pc' = [pc EXCEPT ![t] = "g_lock"]
    /\ UNCHANGED << build, ANYRUN_INTERNAL_ID_COUNTER, ANYRUN_INTERNAL_THREAD, threadLock,
                    ANYRUN_INTERNAL_DATA, dataLock, poisoned, initThread,
                    ret, aborted, issued, delivered >>

\* ANYRUN_INTERNAL_THREAD.lock().unwrap(): waits for the slot's mutex only.
get_matches_lock(t) ==
    /\ ~aborted /\ pc[t] = "g_lock"
    /\ threadLock[loc[t].p] = "free"
    /\ threadLock' = [threadLock EXCEPT ![loc[t].p] = t]
    /\ pc' = [pc EXCEPT ![t] = "g_assign"]
    /\ UNCHANGED << build, ANYRUN_INTERNAL_ID_COUNTER, ANYRUN_INTERNAL_THREAD,
                    ANYRUN_INTERNAL_DATA, dataLock, poisoned, initThread, threads,
                    loc, ret, aborted, issued, delivered >>

\* A replacement that first joins the thread the slot tracks.
get_matches_assign_joining(t) ==
    /\ ~aborted /\ pc[t] = "g_assign"
    /\ LET slot == ANYRUN_INTERNAL_THREAD[loc[t].p] IN
       IF slot = None THEN TRUE ELSE threads[slot[1]].st \in {"finished", "panicked"}
    /\ ANYRUN_INTERNAL_THREAD' =
           [ANYRUN_INTERNAL_THREAD EXCEPT ![loc[t].p] = Some(loc[t].handle, loc[t].current_id)]
    /\ threadLock' = [threadLock EXCEPT ![loc[t].p] = "free"]
    /\ pc' = [pc EXCEPT ![t] = "g_ret"]
    /\ UNCHANGED << build, ANYRUN_INTERNAL_ID_COUNTER,
                    ANYRUN_INTERNAL_DATA, dataLock, poisoned, initThread, threads,
                    loc, ret, aborted, issued, delivered >>

\* *guard = Some((handle, current_id)); the JoinHandle that was there is dropped,
\* which detaches its thread: the thread is neither joined nor stopped.
get_matches_assign(t) ==
    /\ ~aborted /\ pc[t] = "g_assign"
    /\ ANYRUN_INTERNAL_THREAD' =
           [ANYRUN_INTERNAL_THREAD EXCEPT ![loc[t].p] = Some(loc[t].handle, loc[t].current_id)]
    /\ threadLock' = [threadLock EXCEPT ![loc[t].p] = "free"]
    /\ pc' = [pc EXCEPT ![t] = "g_ret"]
    /\ UNCHANGED << build, ANYRUN_INTERNAL_ID_COUNTER,
                    ANYRUN_INTERNAL_DATA, dataLock, poisoned, initThread, threads,
                    loc, ret, aborted, issued, delivered >>

\* current_id
get_matches_return(t) ==
    /\ ~aborted /\ pc[t] = "g_ret"
    /\ ret' = [ret EXCEPT ![t] = [op |-> "get_matches", kind |-> "id",
                                  val |-> loc[t].current_id, h |-> loc[t].handle]]
    /\ issued' = [issued EXCEPT ![loc[t].p] = Append(@, loc[t].current_id)]
    /\ pc' = [pc EXCEPT ![t] = "idle"]
    /\ loc' = [loc EXCEPT ![t] = Loc0]
    /\ UNCHANGED << build, ANYRUN_INTERNAL_ID_COUNTER, ANYRUN_INTERNAL_THREAD, threadLock,
                    ANYRUN_INTERNAL_DATA, dataLock, poisoned, initThread, threads,
                    aborted, delivered >>

get_matches_step(t) ==
    \/ get_matches_load(t)
    \/ get_matches_store(t)
    \/ get_matches_spawn(t)
    \/ get_matches_lock(t)
    \/ get_matches_assign(t)
    \/ get_matches_return(t)

\* ------------------------------------------------------ the spawned closure
\* `if let Some(data) = ANYRUN_INTERNAL_DATA.<lock>().unwrap().as_ref/as_mut()`:
\* the closure waits for the data lock, then either runs the author's function
\* with the lock held or, with no data yet, returns RVec::new() at once.
task_read(h) ==
    /\ ~aborted /\ threads[h].st = "start"
    /\ LET p == threads[h].p IN
       /\ CanAcquire(p)
       /\ IF poisoned[p]
          THEN /\ threads' = [threads EXCEPT ![h].st = "panicked"]
               /\ UNCHANGED dataLock
          ELSE IF ANYRUN_INTERNAL_DATA[p]
          THEN /\ threads' = [threads EXCEPT ![h].st = "computing"]
               /\ dataLock' = Acquire(p, Holder(h))
          ELSE /\ threads' = [threads EXCEPT ![h].st = "finished", ![h].res = <<>>]
               /\ UNCHANGED dataLock
    /\ UNCHANGED << build, ANYRUN_INTERNAL_ID_COUNTER, ANYRUN_INTERNAL_THREAD, threadLock,
                    ANYRUN_INTERNAL_DATA, poisoned, initThread,
                    pc, loc, ret, aborted, issued, delivered >>
    /\ UNCHANGED uiVars

\* #fn_name(input, data) returns.
task_finish(h) ==
    /\ ~aborted /\ threads[h].st = "computing"
    /\ threads' = [threads EXCEPT ![h].st = "finished", ![h].res = UserMatches(threads[h].q)]
    /\ dataLock' = Release(threads[h].p, Holder(h))
    /\ UNCHANGED << build, ANYRUN_INTERNAL_ID_COUNTER, ANYRUN_INTERNAL_THREAD, threadLock,
                    ANYRUN_INTERNAL_DATA, poisoned, initThread,
                    pc, loc, ret, aborted, issued, delivered >>
    /\ UNCHANGED uiVars

\* #fn_name(input, data) panics: the thread ends by unwinding; a lock held
\* exclusively is poisoned.
task_panic(h) ==
    /\ ~aborted /\ threads[h].st = "computing"
    /\ threads' = [threads EXCEPT ![h].st = "panicked"]
    /\ poisoned' = [poisoned EXCEPT ![threads[h].p] = @ \/ Exclusive]
    /\ dataLock' = Release(threads[h].p, Holder(h))
    /\ UNCHANGED << build, ANYRUN_INTERNAL_ID_COUNTER, ANYRUN_INTERNAL_THREAD, threadLock,
                    ANYRUN_INTERNAL_DATA, initThread,
                    pc, loc, ret, aborted, issued, delivered >>
    /\ UNCHANGED uiVars

\* -------------------------------------------- anyrun_internal_poll_matches
poll_matches_call(t, p, id) ==
    /\ ~aborted /\ pc[t] = "idle"
    /\ pc' = [pc EXCEPT ![t] = "p_try"]
    /\ loc' = [loc EXCEPT ![t] = [Loc0 EXCEPT !.p = p, !.id = id,
                                              !.stale = Superseded(p, id),
                                              !.deliv = (id \in delivered[p])]]
    /\ ret' = [ret EXCEPT ![t] = Ret0]
    /\ UNCHANGED << build, ANYRUN_INTERNAL_ID_COUNTER, ANYRUN_INTERNAL_THREAD, threadLock,
                    ANYRUN_INTERNAL_DATA, dataLock, poisoned, initThread, threads,
                    aborted, issued, delivered >>

PollReturn(t, kind, val, h) ==
    /\ ret' = [ret EXCEPT ![t] = [op |-> "poll_matches", kind |-> kind, val |-> val, h |-> h]]
    /\ pc' = [pc EXCEPT ![t] = "idle"]

\* match ANYRUN_INTERNAL_THREAD.try_lock() { ..., Err(_) => return Pending }
poll_matches_try_lock(t) ==
    /\ ~aborted /\ pc[t] = "p_try"
    /\ IF threadLock[loc[t].p] = "free"
       THEN /\ threadLock' = [threadLock EXCEPT ![loc[t].p] = t]
            /\ pc' = [pc EXCEPT ![t] = "p_inspect"]
            /\ UNCHANGED ret
       ELSE /\ PollReturn(t, "Pending", <<>>, 0)
            /\ UNCHANGED threadLock
    /\ UNCHANGED << build, ANYRUN_INTERNAL_ID_COUNTER, ANYRUN_INTERNAL_THREAD,
                    ANYRUN_INTERNAL_DATA, dataLock, poisoned, initThread, threads,
                    loc, aborted, issued, delivered >>

\* An inspection that does not compare the ids.
Inspect_any_id(slot, id) ==
    IF slot = None THEN "Cancelled"
    ELSE IF ~is_finished(slot[1]) THEN "Pending" ELSE "take"

\* What the inspection under the guard decides for the slot's content:
\* "Pending", "Cancelled", or "take" (fall through to the take and the join).
Inspect(slot, id) ==
    IF slot = None THEN "Cancelled"
    ELSE IF slot[2] = id
         THEN IF ~is_finished(slot[1]) THEN "Pending" ELSE "take"
         ELSE "Cancelled"

\* Ok(thread) => match thread.as_ref() { ... }; the guard is dropped at the end of the match.
poll_matches_inspect(t) ==
    /\ ~aborted /\ pc[t] = "p_inspect"
    /\ threadLock' = [threadLock EXCEPT ![loc[t].p] = "free"]
    /\ LET d == Inspect(ANYRUN_INTERNAL_THREAD[loc[t].p], loc[t].id) IN
       IF d = "take"
       THEN /\ pc' = [pc EXCEPT ![t] = "p_lock"]
            /\ UNCHANGED ret
       ELSE PollReturn(t, d, <<>>, 0)
    /\ UNCHANGED << build, ANYRUN_INTERNAL_ID_COUNTER, ANYRUN_INTERNAL_THREAD,
                    ANYRUN_INTERNAL_DATA, dataLock, poisoned, initThread, threads,
                    loc, aborted, issued, delivered >>

\* ANYRUN_INTERNAL_THREAD.lock().unwrap(): the mutex is taken a second time.
poll_matches_lock(t) ==
    /\ ~aborted /\ pc[t] = "p_lock"
    /\ threadLock[loc[t].p] = "free"
    /\ threadLock' = [threadLock EXCEPT ![loc[t].p] = t]
    /\ pc' = [pc EXCEPT ![t] = "p_take"]
    /\ UNCHANGED << build, ANYRUN_INTERNAL_ID_COUNTER, ANYRUN_INTERNAL_THREAD,
                    ANYRUN_INTERNAL_DATA, dataLock, poisoned, initThread, threads,
                    loc, ret, aborted, issued, delivered >>

\* A take that leaves the slot as it was.
Taken_keeps(slot) == slot

\* What Option::take leaves in the slot.
Taken(slot) == None

\* let (thread, _) = guard.take().unwrap(): whatever the slot holds now is
\* taken; unwrap panics on None, and a panic in the entry point aborts the process.
poll_matches_take(t) ==
    /\ ~aborted /\ pc[t] = "p_take"
    /\ LET slot == ANYRUN_INTERNAL_THREAD[loc[t].p] IN
       IF slot = None
       THEN /\ aborted' = TRUE
            /\ UNCHANGED << ANYRUN_INTERNAL_THREAD, threadLock, loc, pc >>
       ELSE /\ ANYRUN_INTERNAL_THREAD' =
                   [ANYRUN_INTERNAL_THREAD EXCEPT ![loc[t].p] = Taken(slot)]
            /\ threadLock' = [threadLock EXCEPT ![loc[t].p] = "free"]
            /\ loc' = [loc EXCEPT ![t].handle = slot[1]]
            /\ pc' = [pc EXCEPT ![t] = "p_join"]
            /\ UNCHANGED aborted
    /\ UNCHANGED << build, ANYRUN_INTERNAL_ID_COUNTER,
                    ANYRUN_INTERNAL_DATA, dataLock, poisoned, initThread, threads,
                    ret, issued, delivered >>

\* PollResult::Ready(thread.join().unwrap()): join waits for the thread to end;
\* unwrap panics when the thread ended by panicking.
poll_matches_join(t) ==
    /\ ~aborted /\ pc[t] = "p_join"
    /\ is_finished(loc[t].handle)
    /\ IF threads[loc[t].handle].st = "panicked"
       THEN /\ aborted' = TRUE
            /\ UNCHANGED << pc, ret, loc, delivered >>
       ELSE /\ PollReturn(t, "Ready", threads[loc[t].handle].res, loc[t].handle)
            /\ delivered' = [delivered EXCEPT ![loc[t].p] = @ \cup {loc[t].id}]
            /\ loc' = [loc EXCEPT ![t].handle = 0]
            /\ UNCHANGED aborted
    /\ UNCHANGED << build, ANYRUN_INTERNAL_ID_COUNTER, ANYRUN_INTERNAL_THREAD, threadLock,
                    ANYRUN_INTERNAL_DATA, dataLock, poisoned, initThread, threads,
                    issued >>

poll_matches_step(t) ==
    \/ poll_matches_try_lock(t)
    \/ poll_matches_inspect(t)
    \/ poll_matches_lock(t)
    \/ poll_matches_take(t)
    \/ poll_matches_join(t)

\* ---------------------------------------- anyrun_internal_handle_selection
handle_selection_call(t, p) ==
    /\ ~aborted /\ pc[t] = "idle"
    /\ pc' = [pc EXCEPT ![t] = "h_lock"]
    /\ loc' = [loc EXCEPT ![t] = [Loc0 EXCEPT !.p = p, !.pre = ~ANYRUN_INTERNAL_DATA[p]]]
    /\ ret' = [ret EXCEPT ![t] = Ret0]
    /\ UNCHANGED << build, ANYRUN_INTERNAL_ID_COUNTER, ANYRUN_INTERNAL_THREAD, threadLock,
                    ANYRUN_INTERNAL_DATA, dataLock, poisoned, initThread, threads,
                    aborted, issued, delivered >>

\* ANYRUN_INTERNAL_DATA.<lock>().unwrap().as_ref/as_mut().unwrap(): waits for the
\* data lock; the first unwrap panics on a poisoned lock, the second on None.
handle_selection_lock(t) ==
    /\ ~aborted /\ pc[t] = "h_lock"
    /\ CanAcquire(loc[t].p)
    /\ IF poisoned[loc[t].p] \/ ~ANYRUN_INTERNAL_DATA[loc[t].p]
       THEN /\ aborted' = TRUE
            /\ UNCHANGED << dataLock, pc >>
       ELSE /\ dataLock' = Acquire(loc[t].p, t)
            /\ pc' = [pc EXCEPT ![t] = "h_run"]
            /\ UNCHANGED aborted
    /\ UNCHANGED << build, ANYRUN_INTERNAL_ID_COUNTER, ANYRUN_INTERNAL_THREAD, threadLock,
                    ANYRUN_INTERNAL_DATA, poisoned, initThread, threads,
                    loc, ret, issued, delivered >>

\* The author's handler returns its HandleResult; the guard is dropped.
handle_selection_return(t, r) ==
    /\ ~aborted /\ pc[t] = "h_run"
    /\ dataLock' = Release(loc[t].p, t)
    /\ ret' = [ret EXCEPT ![t] = [op |-> "handle_selection", kind |-> "HandleResult",
                                  val |-> r, h |-> 0]]
    /\ pc' = [pc EXCEPT ![t] = "idle"]
    /\ UNCHANGED << build, ANYRUN_INTERNAL_ID_COUNTER, ANYRUN_INTERNAL_THREAD, threadLock,
                    ANYRUN_INTERNAL_DATA, poisoned, initThread, threads,
                    loc, aborted, issued, delivered >>

handle_selection_step(t) ==
    \/ handle_selection_lock(t)
    \/ \E r \in HandleResults : handle_selection_return(t, r)

\* ------------------------------------- the thread anyrun_internal_init spawns
\* anyrun-macros: `let mut lock = DATA.write().unwrap();` comes first, so the
\* author's init function runs with the write lock held.
\* anyrun-plugin: `*DATA.lock().unwrap() = Some($init(config_dir))` evaluates the
\* assigned value first, so the author's init function runs before the lock is taken.
init_begin(p) ==
    /\ ~aborted /\ initThread[p] = "spawned"
    /\ IF build = "decl"
       THEN /\ initThread' = [initThread EXCEPT ![p] = "computed"]
            /\ UNCHANGED dataLock
       ELSE /\ CanWrite(p)
            /\ IF poisoned[p]
               THEN /\ initThread' = [initThread EXCEPT ![p] = "panicked"]
                    /\ UNCHANGED dataLock
               ELSE /\ initThread' = [initThread EXCEPT ![p] = "locked"]
                    /\ dataLock' = [dataLock EXCEPT ![p].writer = "init"]
    /\ UNCHANGED << build, ANYRUN_INTERNAL_ID_COUNTER, ANYRUN_INTERNAL_THREAD, threadLock,
                    ANYRUN_INTERNAL_DATA, poisoned, threads,
                    pc, loc, ret, aborted, issued, delivered >>
    /\ UNCHANGED uiVars

\* The data is stored: *lock = Some(...), and the lock is given back.
init_store(p) ==
    /\ ~aborted
    /\ \/ /\ initThread[p] = "locked"
          /\ ANYRUN_INTERNAL_DATA' = [ANYRUN_INTERNAL_DATA EXCEPT ![p] = TRUE]
          /\ dataLock' = [dataLock EXCEPT ![p].writer = "none"]
          /\ initThread' = [initThread EXCEPT ![p] = "done"]
       \/ /\ initThread[p] = "computed"
          /\ CanWrite(p)
          /\ IF poisoned[p]
             THEN /\ initThread' = [initThread EXCEPT ![p] = "panicked"]
                  /\ UNCHANGED ANYRUN_INTERNAL_DATA
             ELSE /\ initThread' = [initThread EXCEPT ![p] = "done"]
                  /\ ANYRUN_INTERNAL_DATA' = [ANYRUN_INTERNAL_DATA EXCEPT ![p] = TRUE]
          /\ UNCHANGED dataLock
    /\ UNCHANGED << build, ANYRUN_INTERNAL_ID_COUNTER, ANYRUN_INTERNAL_THREAD, threadLock,
                    poisoned, threads, pc, loc, ret, aborted, issued, delivered >>
    /\ UNCHANGED uiVars

\* ------------------------------------------- the in-process host (main.rs)
\* Every row of every plugin's list, in display order, as pairs <<plugin, index>>.
RECURSIVE combined_matches(_, _)
combined_matches(l, k) ==
    IF k > Len(PluginOrder) THEN << >>
    ELSE [i \in 1..Len(l[PluginOrder[k]]) |-> << PluginOrder[k], i >>]
         \o combined_matches(l, k + 1)

\* The truncation left out: every row of plugin p is kept.
KeptRows_all(l, p, n) == Len(l[p])

\* How many rows of plugin p are among the first n rows of the combined list:
\* `.skip(max_matches)` removes the others.
KeptRows(l, p, n) ==
    LET c == combined_matches(l, 1) IN
    Cardinality({k \in 1..Len(c) : k <= n /\ c[k][1] = p})

\* The lists, the row visibility and the selection after
\* handle_matches(plugin_view, runtime_data, matches) on the display d, both as
\* <<list, row_visible, selected>>.
handle_matches_in(d, p, matches) ==
    LET list_ == d[1]
        row_visible_ == d[2]
        cleared == [list_ EXCEPT ![p] = << >>]
        unsel == [d[3] EXCEPT ![p] = 0]
        added == [cleared EXCEPT ![p] = matches]
        c == combined_matches(added, 1)
        cut == IF max_entries = << >> THEN added
               ELSE [o \in Plugins |->
                        SubSeq(added[o], 1, KeptRows(added, o, max_entries[1]))]
    IN  IF matches = << >>
        THEN << cleared, [row_visible_ EXCEPT ![p] = FALSE], unsel >>
        ELSE << cut,
                [o \in Plugins |->
                    IF o = p THEN cut[o] # << >>
                    ELSE IF added[o] # << >> /\ cut[o] = << >> THEN FALSE
                    ELSE row_visible_[o]],
                [o \in Plugins |-> IF o = c[1][1] /\ cut[o] # << >> THEN 1 ELSE 0] >>

\* handle_matches on the display the window holds.
handle_matches(p, matches) ==
    handle_matches_in(<< list, row_visible, selected >>, p, matches)

\* entry.connect_changed: refresh_matches(entry.text(), runtime_data) starts.
entry_changed(q) ==
    /\ ~aborted /\ ~window_closed /\ hostPc = "idle"
    /\ refreshes < MaxRefreshes
    /\ entry' = q
    /\ todo' = PluginOrder
    /\ hostPc' = "refresh"
    /\ refreshes' = refreshes + 1
    /\ UNCHANGED << exclusive, max_entries, timeouts, cur, list, row_visible, selected,
                    window_closed >>
    /\ UNCHANGED << schedVars, offHost >>

\* refresh_matches: let id = plugin_view.plugin.get_matches()(input) for the next plugin.
refresh_matches_get ==
    /\ ~window_closed /\ hostPc = "refresh"
    /\ get_matches_call(MainThread, Head(todo), entry)
    /\ hostPc' = "get"
    /\ UNCHANGED << entry, exclusive, max_entries, todo, timeouts, cur, list, row_visible,
                    selected, window_closed, refreshes >>
    /\ UNCHANGED offHost

\* refresh_matches, once get_matches has returned the id: the polling callback
\* is registered, unless another plugin is exclusive: then the plugin's list is emptied.
refresh_matches_register ==
    /\ ~aborted /\ hostPc = "get"
    /\ pc[MainThread] = "idle" /\ ret[MainThread].op = "get_matches"
    /\ LET p == Head(todo)
           id == ret[MainThread].val
           shown == handle_matches(p, << >>)
       IN IF exclusive # << >> /\ exclusive[1] # p
          THEN /\ list' = shown[1]
               /\ row_visible' = shown[2]
               /\ selected' = shown[3]
               /\ UNCHANGED timeouts
          ELSE /\ timeouts' = timeouts \cup {<< p, id >>}
               /\ UNCHANGED << list, row_visible, selected >>
    /\ todo' = Tail(todo)
    /\ hostPc' = IF Tail(todo) = << >> THEN "idle" ELSE "refresh"
    /\ UNCHANGED << entry, exclusive, max_entries, cur, window_closed, refreshes >>
    /\ UNCHANGED << schedVars, offHost >>

\* async_match: the timeout fires and calls plugin_view.plugin.poll_matches()(id).
async_match_poll(cb) ==
    /\ ~window_closed /\ hostPc = "idle"
    /\ cb \in timeouts
    /\ poll_matches_call(MainThread, cb[1], cb[2])
    /\ cur' = cb
    /\ hostPc' = "poll"
    /\ UNCHANGED << entry, exclusive, max_entries, todo, timeouts, list, row_visible,
                    selected, window_closed, refreshes >>
    /\ UNCHANGED offHost

\* The glib::Continue async_match returns: the callback is kept on Pending only.
Continue(kind) == kind = "Pending"

\* async_match, once poll_matches has returned: Ready shows the matches and
\* stops the callback, Pending keeps it, Cancelled stops it.
async_match(cb) ==
    /\ ~aborted /\ hostPc = "poll" /\ cur = cb
    /\ pc[MainThread] = "idle" /\ ret[MainThread].op = "poll_matches"
    /\ LET shown == handle_matches(cb[1], ret[MainThread].val) IN
       IF ret[MainThread].kind = "Ready"
       THEN /\ list' = shown[1]
            /\ row_visible' = shown[2]
            /\ selected' = shown[3]
       ELSE UNCHANGED << list, row_visible, selected >>
    /\ timeouts' = IF Continue(ret[MainThread].kind) THEN timeouts ELSE timeouts \ {cb}
    /\ hostPc' = "idle"
    /\ cur' = << >>
    /\ UNCHANGED << entry, exclusive, max_entries, todo, window_closed, refreshes >>
    /\ UNCHANGED << schedVars, offHost >>

\* The plugin whose list holds the selected row: the first one `find_map` meets.
SelectedView ==
    LET with == {k \in 1..Len(PluginOrder) : selected[PluginOrder[k]] > 0} IN
    IF with = {} THEN << >>
    ELSE << PluginOrder[CHOOSE k \in with : \A j \in with : k <= j] >>

\* constants::Return: with a row selected, plugin_view.plugin.handle_selection()(match).
key_Return_upto(bound) ==
    /\ ~window_closed /\ hostPc = "idle"
    /\ refreshes < bound
    /\ SelectedView # << >>
    /\ handle_selection_call(MainThread, SelectedView[1])
    /\ cur' = SelectedView
    /\ hostPc' = "handle"
    /\ UNCHANGED << entry, exclusive, max_entries, todo, timeouts, list, row_visible,
                    selected, window_closed, refreshes >>
    /\ UNCHANGED offHost

key_Return == key_Return_upto(MaxRefreshes)

\* constants::Return, once handle_selection has returned: Refresh(exclusive) sets
\* or clears RuntimeData.exclusive and runs refresh_matches; the others close the window.
key_Return_result ==
    /\ ~aborted /\ hostPc = "handle"
    /\ pc[MainThread] = "idle" /\ ret[MainThread].op = "handle_selection"
    /\ LET r == ret[MainThread].val IN
       IF r.kind = "Refresh"
       THEN /\ exclusive' = IF r.arg THEN cur ELSE << >>
            /\ todo' = PluginOrder
            /\ hostPc' = "refresh"
            /\ refreshes' = refreshes + 1
            /\ UNCHANGED window_closed
       ELSE /\ window_closed' = TRUE
            /\ hostPc' = "idle"
            /\ UNCHANGED << exclusive, todo, refreshes >>
    /\ cur' = << >>
    /\ UNCHANGED << entry, max_entries, timeouts, list, row_visible, selected >>
    /\ UNCHANGED << schedVars, offHost >>

\* The main thread inside a call into the plugin.
host_get_matches == hostPc = "get" /\ get_matches_step(MainThread) /\ UNCHANGED uiVars
host_poll_matches == hostPc = "poll" /\ poll_matches_step(MainThread) /\ UNCHANGED uiVars
host_handle_selection ==
    hostPc = "handle" /\ handle_selection_step(MainThread) /\ UNCHANGED uiVars

\* ----------------------------------------- the plugin boxes (plugin_box.rs)
\* The match lists a Matches response may carry.
MatchLists == { << >>, << "m1" >>, << "m1", "m2" >> }

Msg(type, arg) == [type |-> type, arg |-> arg]
NoPlugin == "none"

\* PluginBox::init_model
PluginBox0 == [enabled |-> TRUE, visible |-> FALSE, id |-> 0, matches |-> << >>]

\* What a box's handler leaves alone besides the orchestrator's own state.
BoxFrame == UNCHANGED << offApp, restored, ending, last_result >>

\* last_result before any result was handled.
NoResult == [n |-> 0, p |-> NoPlugin, id |-> 0, matches |-> << >>, taken |-> FALSE,
             had |-> 0]

\* A box that takes the results of every command, the superseded ones too.
Accepts_any_id(b, id) == b.enabled

\* A box that takes results whatever its enabled flag says.
Accepts_disabled(b, id) == id = b.id

\* `if !self.enabled || id != self.id { return; }`: whether a result is taken.
Accepts(b, id) == b.enabled /\ id = b.id

\* A box that adds the matches to its rows without clearing them first.
Loaded_appends(b, matches) ==
    [b EXCEPT !.visible = matches # << >>, !.matches = @ \o matches]

\* The rest of update_cmd_with_view: the list is replaced by the matches, the
\* box is visible when there is any.
Loaded(b, matches) == [b EXCEPT !.visible = matches # << >>, !.matches = matches]

\* A PluginBoxInput::EntryChanged(input) reaches the box's input queue.
send_EntryChanged(p, q) ==
    /\ ~shutdown /\ app_msgs < MaxAppMsgs
    /\ inbox' = [inbox EXCEPT ![p] = Append(@, Msg("EntryChanged", q))]
    /\ app_msgs' = app_msgs + 1
    /\ UNCHANGED << plugin_boxes, commands, app_inputs, tx, app_entry, app_selected,
                    post_run_action, invocation, stdout, shutdown, holder, dropped >>
    /\ BoxFrame

\* PluginBoxInput::EntryChanged(input): the id moves on; an enabled box spawns
\* the command that computes the matches of the input and emits (id, matches).
box_EntryChanged(p) ==
    /\ ~shutdown /\ inbox[p] # << >> /\ Head(inbox[p]).type = "EntryChanged"
    /\ LET b == plugin_boxes[p]
           id == b.id + 1
       IN /\ plugin_boxes' = [plugin_boxes EXCEPT ![p].id = id]
          /\ commands' = IF b.enabled
                         THEN [commands EXCEPT
                                  ![p] = @ \cup {<< id, UserMatches(Head(inbox[p]).arg) >>}]
                         ELSE commands
    /\ inbox' = [inbox EXCEPT ![p] = Tail(@)]
    /\ UNCHANGED << app_inputs, tx, app_entry, app_selected, post_run_action, invocation,
                    stdout, shutdown, holder, dropped, app_msgs >>
    /\ BoxFrame

\* PluginBoxInput::Enable(enable)
box_Enable(p) ==
    /\ ~shutdown /\ inbox[p] # << >> /\ Head(inbox[p]).type = "Enable"
    /\ LET enable == Head(inbox[p]).arg IN
       /\ plugin_boxes' = [plugin_boxes EXCEPT
                              ![p].enabled = enable,
                              ![p].visible = enable,
                              ![p].matches = IF enable THEN @ ELSE << >>]
       /\ app_selected' = IF enable THEN app_selected
                          ELSE [app_selected EXCEPT ![p] = 0]
    /\ inbox' = [inbox EXCEPT ![p] = Tail(@)]
    /\ UNCHANGED << commands, app_inputs, tx, app_entry, post_run_action, invocation,
                    stdout, shutdown, holder, dropped, app_msgs >>
    /\ BoxFrame

\* What a result does to the box, the selection and the App's input queue:
\* a result the box takes replaces the list and reports MatchesLoaded.
TakeResult(p, id, matches) ==
    /\ last_result' = [n |-> last_result.n + 1, p |-> p, id |-> id, matches |-> matches,
                       taken |-> Accepts(plugin_boxes[p], id),
                       had |-> Len(plugin_boxes[p].matches)]
    /\ IF Accepts(plugin_boxes[p], id)
       THEN /\ plugin_boxes' = [plugin_boxes EXCEPT ![p] = Loaded(@, matches)]
            /\ app_selected' = [app_selected EXCEPT ![p] = 0]
            /\ app_inputs' = Append(app_inputs, Msg("MatchesLoaded", p))
            /\ UNCHANGED dropped
       ELSE /\ dropped' = [dropped EXCEPT ![p] = @ + 1]
            /\ UNCHANGED << plugin_boxes, app_selected, app_inputs >>

\* update_cmd_with_view: the output (id, matches) of a spawned command arrives.
box_update_cmd(p, c) ==
    /\ ~shutdown /\ c \in commands[p]
    /\ TakeResult(p, c[1], c[2])
    /\ commands' = [commands EXCEPT ![p] = @ \ {c}]
    /\ UNCHANGED << inbox, tx, app_entry, post_run_action, invocation,
                    stdout, shutdown, holder, app_msgs >>
    /\ UNCHANGED << offApp, restored, ending >>

\* PluginBoxInput::Matches(matches), sent by the App for a Matches response:
\* the matches are the result for the box's current input.
box_Matches(p) ==
    /\ ~shutdown /\ inbox[p] # << >> /\ Head(inbox[p]).type = "Matches"
    /\ TakeResult(p, plugin_boxes[p].id, Head(inbox[p]).arg)
    /\ inbox' = [inbox EXCEPT ![p] = Tail(@)]
    /\ UNCHANGED << commands, tx, app_entry, post_run_action, invocation,
                    stdout, shutdown, holder, app_msgs >>
    /\ UNCHANGED << offApp, restored, ending >>

\* ------------------------------------------------ the orchestrator (app.rs)
\* mpsc::channel(10)
TxCapacity == 10

\* The channel has room for a request.
CanSend == Len(tx) < TxCapacity

\* The worker has returned and dropped rx: the channel is closed.
RxClosed == wpc = "done"

\* let _ = tx.blocking_send(request): returns once the channel has room for
\* the request, or at once with an error, which is discarded, when the
\* channel is closed.
blocking_send(request) ==
    IF RxClosed THEN UNCHANGED tx
    ELSE CanSend /\ tx' = Append(tx, request)

\* App::combined_matches over the boxes' lists.
AppLists == [p \in Plugins |-> plugin_boxes[p].matches]

\* A selection that does not ask for the selected row: the first row of the first
\* box that has rows.
current_selection_first_row ==
    LET with == {k \in 1..Len(PluginOrder) : plugin_boxes[PluginOrder[k]].matches # << >>} IN
    IF with = {} THEN << >>
    ELSE LET p == PluginOrder[CHOOSE k \in with : \A j \in with : k <= j]
         IN << p, plugin_boxes[p].matches[1] >>

\* App::current_selection: the first box with a selected row, and that row.
current_selection ==
    LET with == {k \in 1..Len(PluginOrder) : app_selected[PluginOrder[k]] > 0} IN
    IF with = {} THEN << >>
    ELSE LET p == PluginOrder[CHOOSE k \in with : \A j \in with : k <= j]
         IN << p, plugin_boxes[p].matches[app_selected[p]] >>

AppFrame == UNCHANGED << offApp, restored, ending, last_result >>

\* The user types: the entry's text changes and AppMsg::EntryChanged(text) is sent.
user_types_upto(q, bound) ==
    /\ ~shutdown /\ app_msgs < bound
    /\ app_entry' = q
    /\ app_inputs' = Append(app_inputs, Msg("EntryChanged", q))
    /\ app_msgs' = app_msgs + 1
    /\ UNCHANGED << plugin_boxes, inbox, commands, tx, app_selected, post_run_action,
                    invocation, stdout, shutdown, holder, dropped >>
    /\ AppFrame

user_types(q) == user_types_upto(q, MaxAppMsgs)

\* A key bound to an action is pressed: AppMsg::Action(action) is sent.
user_action(action) ==
    /\ ~shutdown /\ app_msgs < MaxAppMsgs
    /\ app_inputs' = Append(app_inputs, Msg("Action", action))
    /\ app_msgs' = app_msgs + 1
    /\ UNCHANGED << plugin_boxes, inbox, commands, tx, app_entry, app_selected,
                    post_run_action, invocation, stdout, shutdown, holder, dropped >>
    /\ AppFrame

\* AppMsg::EntryChanged(text) => tx.blocking_send(Request::Query { text })
App_EntryChanged ==
    /\ ~shutdown /\ app_inputs # << >> /\ Head(app_inputs).type = "EntryChanged"
    /\ blocking_send(Msg("Query", Head(app_inputs).arg))
    /\ app_inputs' = Tail(app_inputs)
    /\ UNCHANGED << plugin_boxes, inbox, commands, app_entry, app_selected,
                    post_run_action, invocation, stdout, shutdown, holder, dropped, app_msgs >>
    /\ AppFrame

\* AppMsg::Action(Action::Select): with a row selected, Request::Handle is sent.
App_Action_Select ==
    /\ ~shutdown /\ app_inputs # << >> /\ Head(app_inputs) = Msg("Action", "Select")
    /\ IF current_selection = << >> THEN UNCHANGED tx
       ELSE blocking_send(Msg("Handle", current_selection))
    /\ app_inputs' = Tail(app_inputs)
    /\ UNCHANGED << plugin_boxes, inbox, commands, app_entry, app_selected,
                    post_run_action, invocation, stdout, shutdown, holder, dropped, app_msgs >>
    /\ AppFrame

\* AppMsg::Action(Action::Close): without an invocation the pending Stdout bytes
\* are written; the window is closed, Request::Quit is sent, the runtimes shut down.
App_Action_Close ==
    /\ ~shutdown /\ app_inputs # << >> /\ Head(app_inputs) = Msg("Action", "Close")
    /\ stdout' = IF ~invocation /\ post_run_action = "Stdout" THEN stdout + 1 ELSE stdout
    /\ blocking_send(Msg("Quit", ""))
    /\ shutdown' = TRUE
    /\ app_inputs' = Tail(app_inputs)
    /\ UNCHANGED << plugin_boxes, inbox, commands, app_entry, app_selected,
                    post_run_action, invocation, holder, dropped, app_msgs >>
    /\ AppFrame

\* The row that select_row makes the selected one of box p's list; the list's
\* row-selected signal reports RowSelected(index) when the selection changes.
SelectRow(p) ==
    /\ app_selected' = [app_selected EXCEPT ![p] = 1]
    /\ app_inputs' = IF app_selected[p] = 1 THEN Tail(app_inputs)
                     ELSE Append(Tail(app_inputs), Msg("RowSelected", p))

\* AppMsg::PluginOutput(MatchesLoaded): the first row of the combined list is selected.
App_MatchesLoaded ==
    /\ ~shutdown /\ app_inputs # << >> /\ Head(app_inputs).type = "MatchesLoaded"
    /\ LET c == combined_matches(AppLists, 1) IN
       IF c = << >>
       THEN app_inputs' = Tail(app_inputs) /\ UNCHANGED app_selected
       ELSE SelectRow(c[1][1])
    /\ UNCHANGED << plugin_boxes, inbox, commands, tx, app_entry,
                    post_run_action, invocation, stdout, shutdown, holder, dropped, app_msgs >>
    /\ AppFrame

\* AppMsg::PluginOutput(RowSelected(index)): every other list is unselected.
App_RowSelected ==
    /\ ~shutdown /\ app_inputs # << >> /\ Head(app_inputs).type = "RowSelected"
    /\ app_selected' = [p \in Plugins |->
                           IF p = Head(app_inputs).arg THEN app_selected[p] ELSE 0]
    /\ app_inputs' = Tail(app_inputs)
    /\ UNCHANGED << plugin_boxes, inbox, commands, tx, app_entry,
                    post_run_action, invocation, stdout, shutdown, holder, dropped, app_msgs >>
    /\ AppFrame

\* Response::Matches { plugin, matches } => plugins.send(i, PluginBoxInput::Matches(matches))
Response_Matches(plugin, matches) ==
    /\ ~shutdown /\ app_msgs < MaxAppMsgs
    /\ inbox' = [inbox EXCEPT ![plugin] = Append(@, Msg("Matches", matches))]
    /\ app_msgs' = app_msgs + 1
    /\ UNCHANGED << plugin_boxes, commands, app_inputs, tx, app_entry, app_selected,
                    post_run_action, invocation, stdout, shutdown, holder, dropped >>
    /\ AppFrame

\* A Refresh that never sends an Enable to the boxes of the plugin it came from.
EnableSent_others(plugin, excl) ==
    [p \in Plugins |->
        IF p # plugin THEN Append(inbox[p], Msg("Enable", ~excl)) ELSE inbox[p]]

\* The Enable messages a Refresh(exclusive) of `plugin` sends: Enable(false) to
\* every box of another plugin, or Enable(true) to every box.
EnableSent(plugin, excl) ==
    [p \in Plugins |->
        IF excl
        THEN IF p # plugin THEN Append(inbox[p], Msg("Enable", FALSE)) ELSE inbox[p]
        ELSE Append(inbox[p], Msg("Enable", TRUE))]

\* A Refresh that repeats the text of the latest Query sent, not the entry's.
RefreshQuery_sent ==
    LET sent == { i \in 1..Len(tx) : tx[i].type = "Query" }
    IN  IF sent = {} THEN Msg("Query", "") ELSE tx[Largest(sent)]

\* The request a Refresh sends: a Query with the text the entry holds now.
RefreshQuery == Msg("Query", app_entry)

\* Response::Handled { plugin, result }
Response_Handled(plugin, result) ==
    /\ ~shutdown /\ app_msgs < MaxAppMsgs
    /\ app_msgs' = app_msgs + 1
    /\ IF result.kind = "Refresh"
       THEN /\ blocking_send(RefreshQuery)
            /\ inbox' = EnableSent(plugin, result.arg)
            /\ holder' = IF result.arg THEN plugin ELSE NoPlugin
            /\ restored' = IF result.arg THEN NoPlugin ELSE holder
            /\ UNCHANGED << app_inputs, stdout, post_run_action, ending >>
       ELSE /\ app_inputs' = Append(app_inputs, Msg("Action", "Close"))
            /\ stdout' = IF result.kind = "Stdout" THEN stdout + 1 ELSE stdout
            /\ post_run_action' = IF result.kind = "Stdout" THEN "Stdout"
                                  ELSE post_run_action
            /\ ending' = TRUE
            /\ UNCHANGED << tx, inbox, holder, restored >>
    /\ UNCHANGED << plugin_boxes, commands, app_entry, app_selected, invocation, shutdown,
                    dropped >>
    /\ UNCHANGED << offApp, last_result >>

\* ------------------------------------- the IPC worker (provider.rs, socket.rs)
\* The error kinds a failed connection reports, besides WouldBlock.
ConnErrors == {"ConnectionAborted", "ConnectionReset"}

\* The worker is past listener.accept(): the socket exists.
Connected == wpc \in {"loop", "try_recv", "sock_recv"}

\* What the worker's and the provider's steps leave alone: all but tx.
WorkerFrame ==
    /\ UNCHANGED << plugin_boxes, inbox, commands, app_inputs, app_entry, app_selected,
                    post_run_action, invocation, stdout, shutdown, holder, dropped,
                    restored, ending, last_result, app_msgs >>
    /\ UNCHANGED << schedVars, hostVars, orderVars, loaderVars, pluginVars >>

\* The outcomes of Command::spawn.
SpawnOutcomes == {"Ok", "NotFound", "Other"}

\* A worker that prints NotFound and returns it to its caller as well.
spawn_failure_reports_both(outcome) ==
    IF outcome = "Ok" THEN 0 ELSE IF outcome = "NotFound" THEN 2 ELSE 1

\* How many times a failure of spawn is printed: provider.rs prints NotFound
\* itself and returns Ok(()); any other error, and every error of socket.rs,
\* is returned to the closure that runs the worker, which prints it.
spawn_failure_reports(outcome) ==
    IF outcome = "Ok" THEN 0 ELSE 1

\* The bind of the listener, which creates the socket file, and
\* Command::spawn of the provider: on an error of spawn the worker returns.
worker_spawn(outcome) ==
    /\ wpc = "spawn"
    /\ socket_file' = TRUE
    /\ spawned' = outcome
    /\ spawn_reports' = spawn_reports + spawn_failure_reports(outcome)
    /\ wpc' = IF outcome = "Ok" THEN "accept" ELSE "done"
    /\ UNCHANGED << worker_fn, conn, socket_in, socket_out, emitted, failed, responses,
                    tx_dropped, tx >>
    /\ WorkerFrame

\* listener.accept() returns the provider's connection; the loop starts.
worker_accept ==
    /\ wpc = "accept"
    /\ wpc' = IF worker_fn = "provider" THEN "loop" ELSE "try_recv"
    /\ UNCHANGED << worker_fn, conn, socket_in, socket_out, emitted, failed, responses,
                    spawned, spawn_reports, socket_file, tx_dropped, tx >>
    /\ WorkerFrame

\* A worker that takes the newest request of the channel, not the oldest.
rx_recv_newest == tx[Len(tx)]

\* rx.recv() / rx.try_recv() on a channel that holds a request: the oldest.
rx_recv == Head(tx)

\* A worker that takes no request for Quit.
is_quit_never(request) == FALSE

\* `if matches!(req, ipc::Request::Quit) { break; }`
is_quit(request) == request.type = "Quit"

\* socket.send(&request)? and the test for Request::Quit, which both workers
\* share: with the connection failed the worker returns the error at once;
\* after sending Quit it breaks out of the loop and removes the socket file;
\* else it goes on at `on`.
send_request(on) ==
    /\ tx' = Tail(tx)
    /\ IF conn = "up"
       THEN /\ socket_out' = Append(socket_out, rx_recv)
            /\ wpc' = IF is_quit(rx_recv) THEN "done" ELSE on
            /\ socket_file' = IF is_quit(rx_recv) THEN FALSE ELSE socket_file
            /\ UNCHANGED failed
       ELSE /\ wpc' = "done"
            /\ failed' = TRUE
            /\ UNCHANGED << socket_out, socket_file >>

\* provider.rs, select! branch req = rx.recv() with Some(req): the request is sent.
worker_select_request ==
    /\ worker_fn = "provider" /\ wpc = "loop"
    /\ tx # << >>
    /\ send_request("loop")
    /\ UNCHANGED << worker_fn, conn, socket_in, emitted, responses, spawned, spawn_reports,
                    tx_dropped >>
    /\ WorkerFrame

\* provider.rs, select! branch req = rx.recv() on the empty channel whose
\* Sender is dropped: recv returns None, `if let Some(req)` does nothing and
\* the loop goes round.
worker_select_closed ==
    /\ worker_fn = "provider" /\ wpc = "loop"
    /\ tx = << >> /\ tx_dropped
    /\ UNCHANGED << workerVars, tx >>
    /\ WorkerFrame

\* provider.rs, select! branch res = socket.recv(): a response is emitted;
\* any error breaks the loop, after which the socket file is removed.
worker_select_response ==
    /\ worker_fn = "provider" /\ wpc = "loop"
    /\ socket_in # << >> \/ conn # "up"
    /\ IF socket_in # << >>
       THEN /\ emitted' = Append(emitted, Head(socket_in))
            /\ socket_in' = Tail(socket_in)
            /\ UNCHANGED << wpc, failed, socket_file >>
       ELSE /\ wpc' = "done"
            /\ failed' = TRUE
            /\ socket_file' = FALSE
            /\ UNCHANGED << emitted, socket_in >>
    /\ UNCHANGED << worker_fn, conn, socket_out, responses, spawned, spawn_reports,
                    tx_dropped, tx >>
    /\ WorkerFrame

\* socket.rs, match rx.try_recv(): a request is sent; or the channel is Empty;
\* or it is empty with its Sender dropped, Disconnected, which breaks the loop.
worker_try_recv ==
    /\ worker_fn = "socket" /\ wpc = "try_recv"
    /\ IF tx = << >>
       THEN /\ wpc' = IF tx_dropped THEN "done" ELSE "sock_recv"
            /\ socket_file' = IF tx_dropped THEN FALSE ELSE socket_file
            /\ UNCHANGED << tx, socket_out, failed >>
       ELSE send_request("sock_recv")
    /\ UNCHANGED << worker_fn, conn, socket_in, emitted, responses, spawned, spawn_reports,
                    tx_dropped >>
    /\ WorkerFrame

\* socket.rs, match socket.recv() on the non-blocking socket, then the sleep:
\* a response is emitted; WouldBlock is passed over; ConnectionAborted breaks
\* the loop; any other error is printed and the loop goes on.
worker_socket_recv ==
    /\ worker_fn = "socket" /\ wpc = "sock_recv"
    /\ IF socket_in # << >>
       THEN /\ emitted' = Append(emitted, Head(socket_in))
            /\ socket_in' = Tail(socket_in)
            /\ wpc' = "try_recv"
            /\ UNCHANGED << failed, socket_file >>
       ELSE /\ wpc' = IF conn = "ConnectionAborted" THEN "done" ELSE "try_recv"
            /\ socket_file' = IF conn = "ConnectionAborted" THEN FALSE ELSE socket_file
            /\ failed' = (failed \/ conn # "up")
            /\ UNCHANGED << emitted, socket_in >>
    /\ UNCHANGED << worker_fn, conn, socket_out, responses, spawned, spawn_reports,
                    tx_dropped, tx >>
    /\ WorkerFrame

\* The provider writes a response to the connection.
provider_responds ==
    /\ Connected /\ conn = "up" /\ responses < MaxResponses
    /\ responses' = responses + 1
    /\ socket_in' = Append(socket_in, Msg("Response", responses + 1))
    /\ UNCHANGED << worker_fn, wpc, conn, socket_out, emitted, failed, spawned,
                    spawn_reports, socket_file, tx_dropped, tx >>
    /\ WorkerFrame

\* The connection fails: from now on send and receive report `kind`.
provider_fails(kind) ==
    /\ Connected /\ conn = "up"
    /\ conn' = kind
    /\ UNCHANGED << worker_fn, wpc, socket_in, socket_out, emitted, failed, responses,
                    spawned, spawn_reports, socket_file, tx_dropped, tx >>
    /\ WorkerFrame

\* The orchestrator goes away without Action::Close having run (its window
\* is destroyed): it handles no further message and its Sender is dropped.
app_dropped ==
    /\ ~shutdown /\ ~tx_dropped
    /\ shutdown' = TRUE
    /\ tx_dropped' = TRUE
    /\ UNCHANGED << worker_fn, wpc, conn, socket_in, socket_out, emitted, failed, responses,
                    spawned, spawn_reports, socket_file, tx >>
    /\ UNCHANGED << plugin_boxes, inbox, commands, app_inputs, app_entry, app_selected,
                    post_run_action, invocation, stdout, holder, dropped,
                    restored, ending, last_result, app_msgs >>
    /\ UNCHANGED << schedVars, hostVars, orderVars, loaderVars, pluginVars >>

\* Action::Close has run: its Quit was sent (or dropped) and the runtimes shut down.
CloseRan == shutdown /\ ~tx_dropped

\* Action::Close called application().quit(): the GTK main loop returns and the
\* process exits, taking the worker's thread with it wherever it is. Nothing waits
\* for the worker (the FIXME of app.rs:359).
host_exits ==
    /\ CloseRan /\ ~invocation
    /\ wpc \notin {"done", "killed"}
    /\ wpc' = "killed"
    /\ UNCHANGED << worker_fn, conn, socket_in, socket_out, emitted, failed, responses,
                    spawned, spawn_reports, socket_file, tx_dropped, tx >>
    /\ WorkerFrame

\* ----------------------------------- the loading of the plugins (main.rs)
\* Paths are sequences of components; an absolute path starts at the root.
Root == "/"
is_absolute(path) == path # << >> /\ Head(path) = Root

\* PathBuf::push: an absolute argument replaces the path, a relative one is appended.
push(path, arg) == IF is_absolute(arg) THEN arg ELSE path \o arg

UserConfigDir == << Root, "home", ".config", "anyrun" >>
DEFAULT_CONFIG_DIR == << Root, "etc", "anyrun" >>
ConfigDirs == {UserConfigDir, DEFAULT_CONFIG_DIR}
PluginsDir(dir) == push(dir, << "plugins" >>)

\* The directories ANYRUN_PLUGINS may name, and the references a configuration may hold.
EnvDir == << Root, "env" >>
EnvPaths == {<< >>, << EnvDir >>}
RelativeRefs == {<< "liba.so" >>, << "libb.so" >>}
AbsoluteRefs == {<< Root, "opt", "liba.so" >>}
PluginRefs == RelativeRefs \cup AbsoluteRefs
SearchDirs == {EnvDir} \cup {PluginsDir(dir) : dir \in ConfigDirs}
AllPaths == {push(dir, ref) : dir \in SearchDirs, ref \in PluginRefs}

\* The search list with the system-wide directory ahead of the user's.
plugin_paths_system_first ==
    env_paths \o << PluginsDir(DEFAULT_CONFIG_DIR), PluginsDir(config_dir) >>

\* plugin_paths: the directories of ANYRUN_PLUGINS first, then the plugin directory of
\* the configuration directory, then the system-wide one.
plugin_paths ==
    env_paths \o << PluginsDir(config_dir), PluginsDir(DEFAULT_CONFIG_DIR) >>

\* Iterator::find(|path| path.exists()): the first path that exists, << >> for None.
RECURSIVE find_exists(_)
find_exists(paths) ==
    IF paths = << >> THEN << >>
    ELSE IF Head(paths) \in existing THEN Head(paths)
    ELSE find_exists(Tail(paths))

\* The candidates of a relative reference, in the order of plugin_paths.
candidates(plugin_path) ==
    [i \in 1..Len(plugin_paths) |-> push(plugin_paths[i], plugin_path)]

\* The path the library is loaded from, << >> where the search finds none.
resolve(plugin_path) ==
    IF is_absolute(plugin_path) THEN plugin_path
    ELSE find_exists(candidates(plugin_path))

\* lib_header_from_path and init_root_module succeed.
loads(path) == path \in existing /\ path \notin unloadable

\* One turn of the closure mapped over config.plugins: resolve the reference, load the
\* library and call the plugin's init. Both failures are an expect, which panics.
load_plugin ==
    /\ load_pc = "loading"
    /\ Len(collected) < Len(config_plugins)
    /\ LET plugin_path == config_plugins[Len(collected) + 1]
           path == resolve(plugin_path)
       IN  IF path = << >> \/ ~loads(path)
           THEN /\ load_pc' = "panicked"
                /\ UNCHANGED collected
           ELSE /\ collected' = Append(collected, [reference |-> plugin_path,
                                                   path |-> path,
                                                   initialised |-> TRUE])
                /\ UNCHANGED load_pc
    /\ UNCHANGED << config_dir, env_paths, existing, unloadable, config_plugins,
                    runtime_plugins >>
    /\ UNCHANGED << schedVars, hostVars, appVars, orderVars, workerVars, pluginVars >>

\* collect() is over: runtime_data.plugins = plugins.
load_store ==
    /\ load_pc = "loading"
    /\ Len(collected) = Len(config_plugins)
    /\ runtime_plugins' = collected
    /\ load_pc' = "done"
    /\ UNCHANGED << config_dir, env_paths, existing, unloadable, config_plugins,
                    collected >>
    /\ UNCHANGED << schedVars, hostVars, appVars, orderVars, workerVars, pluginVars >>

\* ------------------------------------- the powermenu plugin (plugins/powermenu)
\* PowerAction::VALUES, in the order of the #[repr(u64)] enum.
VALUES == << "Lock", "Logout", "Poweroff", "Reboot", "Suspend", "Hibernate" >>
PowerAction == {VALUES[i] : i \in 1..Len(VALUES)}

\* IntoPrimitive for PowerAction: the discriminant of the variant.
PowerAction_into(action) == (CHOOSE i \in 1..Len(VALUES) : VALUES[i] = action) - 1

\* TryFromPrimitive for PowerAction: << variant >>, or << >> for Err.
PowerAction_try_from(id) == IF id \in 0..(Len(VALUES) - 1) THEN << VALUES[id + 1] >> ELSE << >>

\* enum ConfirmAction { Confirm, Cancel } with IntoPrimitive and TryFromPrimitive.
ConfirmAction == << "Confirm", "Cancel" >>
ConfirmAction_into(action) == IF action = "Confirm" THEN 0 ELSE 1
ConfirmAction_try_from(id) ==
    IF id \in 0..(Len(ConfirmAction) - 1) THEN << ConfirmAction[id + 1] >> ELSE << >>

\* A match of the powermenu: the title, what the description says ("action" for
\* the description of a power action) and the id.
Row(title, description, id) == [title |-> title, description |-> description, id |-> id]

\* PowerAction::as_match
as_match(action) == Row(action, "action", PowerAction_into(action))

get_error_matches == << Row("ERROR!", "error", ConfirmAction_into("Confirm")) >>

get_confirm_matches(action_to_confirm) ==
    << Row(action_to_confirm, "Proceed", ConfirmAction_into("Confirm")),
       Row("Cancel", "Abort", ConfirmAction_into("Cancel")) >>

\* The inputs of get_matches: the empty text, or a text that
\* PowerAction::get_fuzzy_matching_values maps to `hits`, a list of distinct
\* actions in the order of their scores.
HitLists ==
    {h \in UNION {[1..n -> PowerAction] : n \in 0..MaxMenuRows} :
        \A i, j \in 1..Len(h) : i # j => h[i] # h[j]}
MenuInputs == {[empty |-> TRUE, hits |-> << >>]} \cup {[empty |-> FALSE, hits |-> h] : h \in HitLists}

\* #[get_matches] of the powermenu, for the state the plugin is in.
powermenu_matches(input) ==
    IF input.empty THEN << >>
    ELSE IF error_message THEN get_error_matches
    ELSE IF pending_action # << >> THEN get_confirm_matches(pending_action[1])
    ELSE [i \in 1..Len(input.hits) |-> as_match(input.hits[i])]

\* The host asks for the matches of the text in the entry and displays them.
powermenu_get_matches(input) ==
    /\ pm_state = "running"
    /\ pm_shown' = powermenu_matches(input)
    /\ UNCHANGED << power_config, pending_action, error_message, pm_last, pm_state, pm_calls >>
    /\ UNCHANGED << schedVars, hostVars, appVars, orderVars, workerVars, loaderVars, randrVars >>

\* What a handler call has done: the selection, state.pending_action and
\* whether state.error_message was set before the call, the action whose command
\* was run (<< >> for none), and the result.
Handled(selection, executed, result) ==
    [called |-> TRUE, selection |-> selection, pending |-> pending_action,
     error |-> error_message, executed |-> executed, result |-> result]

\* execute_power_action and what follows it: the command of `action` runs;
\* `ok` says whether it ran and exited with success.
execute_power_action(selection, action, ok) ==
    /\ pm_last' = Handled(selection, << action >>, IF ok THEN "Close" ELSE "Refresh(true)")
    /\ error_message' = ~ok
    /\ pm_state' = IF ok THEN "closed" ELSE "running"
    /\ UNCHANGED pending_action

\* #[handler] of the powermenu for the row the user selected among those on display.
powermenu_handler(selection, ok) ==
    /\ pm_state = "running" /\ pm_calls < MaxSelections
    /\ pm_calls' = pm_calls + 1
    /\ IF error_message
       THEN /\ pm_last' = Handled(selection, << >>, "Close")
            /\ pm_state' = "closed"
            /\ UNCHANGED << pending_action, error_message >>
       ELSE IF pending_action # << >>
       THEN LET confirm_action == ConfirmAction_try_from(selection.id) IN
            IF confirm_action = << >>
            THEN /\ pm_last' = Handled(selection, << >>, "panic")
                 /\ pm_state' = "panicked"
                 /\ UNCHANGED << pending_action, error_message >>
            ELSE IF confirm_action[1] # "Confirm"
            THEN /\ pending_action' = << >>
                 /\ pm_last' = Handled(selection, << >>, "Refresh(false)")
                 /\ UNCHANGED << error_message, pm_state >>
            ELSE execute_power_action(selection, pending_action[1], ok)
       ELSE LET power_action == PowerAction_try_from(selection.id) IN
            IF power_action = << >>
            THEN /\ pm_last' = Handled(selection, << >>, "panic")
                 /\ pm_state' = "panicked"
                 /\ UNCHANGED << pending_action, error_message >>
            ELSE IF power_config[power_action[1]]
            THEN /\ pending_action' = power_action
                 /\ pm_last' = Handled(selection, << >>, "Refresh(true)")
                 /\ UNCHANGED << error_message, pm_state >>
            ELSE execute_power_action(selection, power_action[1], ok)
    /\ UNCHANGED << power_config, pm_shown >>
    /\ UNCHANGED << schedVars, hostVars, appVars, orderVars, workerVars, loaderVars, randrVars >>

\* Config::default: the confirm setting of each action.
default_confirm == [a \in PowerAction |-> a \in {"Logout", "Poweroff", "Reboot"}]

\* The configurations powermenu.ron may give: the default, every action
\* confirmed, no action confirmed.
PowerConfigs == {default_confirm, [a \in PowerAction |-> TRUE], [a \in PowerAction |-> FALSE]}

NoRow == Row("none", "none", 0)

\* #[init] of the powermenu.
PowermenuInit(configs) ==
    /\ power_config \in configs
    /\ pending_action = << >>
    /\ error_message = FALSE
    /\ pm_shown = << >>
    /\ pm_last = [called |-> FALSE, selection |-> NoRow, pending |-> << >>,
                  error |-> FALSE, executed |-> << >>, result |-> "none"]
    /\ pm_state = "running"
    /\ pm_calls = 0

\* --------------------------------------------- the randr plugin (plugins/randr)
\* A u64 is four 16-bit limbs, the most significant first; a u32 is two.
Limb == 65536
u64(n) == << 0, 0, 0, n >>
u64_MAX == << Limb - 1, Limb - 1, Limb - 1, Limb - 1 >>

\* x << 32 and x >> 32 on a u64: the bits shifted out are lost.
shl32(x) == << x[3], x[4], 0, 0 >>
shr32(x) == << 0, 0, x[1], x[2] >>

\* x as u32, and y as u64 for a u32 y.
as_u32(x) == << x[3], x[4] >>
as_u64(y) == << 0, 0, y[1], y[2] >>

\* a | b on 16-bit limbs, and on u64s.
RECURSIVE bitor16(_, _)
bitor16(a, b) ==
    IF a = 0 THEN b
    ELSE IF b = 0 THEN a
    ELSE (IF a % 2 = 1 \/ b % 2 = 1 THEN 1 ELSE 0) + 2 * bitor16(a \div 2, b \div 2)
bitor(x, y) == [i \in 1..4 |-> bitor16(x[i], y[i])]

\* enum Configure, and From<&Configure> for u64.
Configure == << "Mirror", "LeftOf", "RightOf", "Below", "Above", "Zero" >>
Configure_into(configure) ==
    u64((CHOOSE i \in 1..Len(Configure) : Configure[i] = configure) - 1)

\* Configure::from_id(id, mon) for a u32 id: << variant >>, or << >> where the
\* match reaches unreachable!().
from_id(id) ==
    IF id[1] = 0 /\ id[2] < Len(Configure) THEN << Configure[id[2] + 1] >> ELSE << >>

\* The ids the monitors may have: the smallest two and the largest below 2^32.
MonitorIds == {u64(0), u64(1), << 0, 0, Limb - 1, Limb - 1 >>}

\* The monitor a match is about, where it is about none.
NoMonitor == << >>

\* A match of the randr plugin: what it stands for and its id.
RandrMatch(configure, mon, id) == [configure |-> configure, mon |-> mon, id |-> id]

\* The matches get_matches builds before it filters them by the text.
randr_all_matches ==
    IF inner = << >>
    THEN {RandrMatch("Position", mon, mon) : mon \in monitors}
    ELSE {RandrMatch(Configure[c], mon, bitor(shl32(mon), Configure_into(Configure[c]))) :
              c \in 1..5, mon \in monitors \ {inner[1]}}
         \cup {RandrMatch("Zero", NoMonitor, Configure_into("Zero")),
               RandrMatch("Back", NoMonitor, u64_MAX)}

\* The results the filter and vec.truncate(config.max_entries) can leave of the
\* matches S: every set of at most max_entries of them.
Kept(S) ==
    {{}} \cup {{f[i] : i \in 1..MaxRandrEntries} : f \in [1..MaxRandrEntries -> S]}

\* #[get_matches] of the randr plugin: nothing for a text without the prefix;
\* otherwise `kept`, the matches whose title the text fuzzy-matches, cut to
\* config.max_entries by vec.truncate.
randr_get_matches(prefixed, kept) ==
    /\ rr_state = "running"
    /\ kept \in Kept(randr_all_matches)
    /\ rr_shown' = IF prefixed THEN kept ELSE {}
    /\ offered_in' = inner
    /\ UNCHANGED << monitors, inner, rr_last, rr_state, rr_calls >>
    /\ UNCHANGED << schedVars, hostVars, appVars, orderVars, workerVars, loaderVars,
                    powermenuVars >>

\* What a handler call has done: the selection, state.inner before the call and
\* when the selection was offered, and the outcome.
RandrHandled(selection, kind, configure, mon) ==
    [called |-> TRUE, selection |-> selection, inner |-> inner, offered_in |-> offered_in,
     kind |-> kind, configure |-> configure, mon |-> mon]

\* .find(|mon| mon.id == id): << the monitor >>, or << >> for None.
find(id) == IF id \in monitors THEN << id >> ELSE << >>

\* #[handler] of the randr plugin for the row the user selected among those on display.
randr_handler(selection) ==
    /\ rr_state = "running" /\ rr_calls < MaxSelections
    /\ rr_calls' = rr_calls + 1
    /\ IF inner = << >>
       THEN IF find(selection.id) = << >>
            THEN /\ rr_last' = RandrHandled(selection, "panic", "none", NoMonitor)
                 /\ rr_state' = "panicked"
                 /\ UNCHANGED inner
            ELSE /\ inner' = find(selection.id)
                 /\ rr_last' = RandrHandled(selection, "Refresh(true)", "none", NoMonitor)
                 /\ UNCHANGED rr_state
       ELSE IF selection.id = u64_MAX
       THEN /\ inner' = << >>
            /\ rr_last' = RandrHandled(selection, "Refresh(false)", "none", NoMonitor)
            /\ UNCHANGED rr_state
       ELSE LET rel_id == as_u32(shr32(selection.id))
                action == as_u32(selection.id)
                rel_mon == find(as_u64(rel_id))
            IN  IF rel_mon = << >> \/ from_id(action) = << >>
                THEN /\ rr_last' = RandrHandled(selection, "panic", "none", NoMonitor)
                     /\ rr_state' = "panicked"
                     /\ UNCHANGED inner
                ELSE /\ rr_last' = RandrHandled(selection, "Close", from_id(action)[1],
                                      IF from_id(action)[1] = "Zero" THEN NoMonitor
                                      ELSE rel_mon[1])
                     /\ rr_state' = "closed"
                     /\ UNCHANGED inner
    /\ UNCHANGED << monitors, rr_shown, offered_in >>
    /\ UNCHANGED << schedVars, hostVars, appVars, orderVars, workerVars, loaderVars,
                    powermenuVars >>

\* #[init] of the randr plugin: the monitors are read once.
RandrInit(sets) ==
    /\ monitors \in sets
    /\ inner = << >>
    /\ rr_shown = {}
    /\ offered_in = << >>
    /\ rr_last = [called |-> FALSE, selection |-> RandrMatch("none", NoMonitor, u64(0)),
                  inner |-> << >>, offered_in |-> << >>,
                  kind |-> "none", configure |-> "none", mon |-> NoMonitor]
    /\ rr_state = "running"
    /\ rr_calls = 0

\* Neither plugin is part of the run.
PluginsIdle ==
    /\ PowermenuInit({default_confirm})
    /\ RandrInit({{}})

\* ---------------------------------------------------------- specifications
\* The orchestrator once Response::Ready has put one box per plugin in place.
AppInit(inv) ==
    /\ plugin_boxes = [p \in Plugins |-> PluginBox0]
    /\ inbox = [p \in Plugins |-> << >>]
    /\ commands = [p \in Plugins |-> {}]
    /\ app_inputs = << >>
    /\ tx = << >>
    /\ app_entry = ""
    /\ app_selected = [p \in Plugins |-> 0]
    /\ post_run_action = "None"
    /\ invocation = inv
    /\ stdout = 0
    /\ shutdown = FALSE
    /\ holder = NoPlugin
    /\ dropped = [p \in Plugins |-> 0]
    /\ restored = NoPlugin
    /\ ending = FALSE
    /\ last_result = NoResult
    /\ app_msgs = 0

\* The statics of a freshly loaded plugin library, with the initialisation
\* thread in position `init` and the data present or not.
SchedInit(init, data) ==
    /\ ANYRUN_INTERNAL_ID_COUNTER = [p \in Plugins |-> 0]
    /\ ANYRUN_INTERNAL_THREAD = [p \in Plugins |-> None]
    /\ threadLock = [p \in Plugins |-> "free"]
    /\ ANYRUN_INTERNAL_DATA = [p \in Plugins |-> data]
    /\ dataLock = [p \in Plugins |-> NoLock]
    /\ poisoned = [p \in Plugins |-> FALSE]
    /\ initThread = [p \in Plugins |-> init]
    /\ threads = [h \in Handles |-> FreeTask]
    /\ pc = [t \in Threads |-> "idle"]
    /\ loc = [t \in Threads |-> Loc0]
    /\ ret = [t \in Threads |-> Ret0]
    /\ aborted = FALSE
    /\ issued = [p \in Plugins |-> <<>>]
    /\ delivered = [p \in Plugins |-> {}]

\* The host right after start-up: nothing typed, no plugin exclusive, every
\* list empty, the window shown.
\* The worker `fn` has been spawned (app.rs:264) and nothing has been exchanged.
WorkerInit(fn) ==
    /\ worker_fn = fn
    /\ wpc = "spawn"
    /\ conn = "up"
    /\ socket_in = << >>
    /\ socket_out = << >>
    /\ emitted = << >>
    /\ failed = FALSE
    /\ responses = 0
    /\ spawned = "pending"
    /\ spawn_reports = 0
    /\ socket_file = FALSE
    /\ tx_dropped = FALSE

\* Sequences of plugin references, up to n of them.
RECURSIVE RefSeqs(_)
RefSeqs(n) ==
    IF n = 0 THEN {<< >>}
    ELSE RefSeqs(n - 1)
         \cup {Append(refs, ref) : refs \in {r \in RefSeqs(n - 1) : Len(r) = n - 1},
                                    ref \in PluginRefs}

\* activate is about to load the plugins of the configuration.
LoaderInit ==
    /\ config_dir \in ConfigDirs
    /\ env_paths \in EnvPaths
    /\ existing \in SUBSET AllPaths
    /\ unloadable \in {u \in SUBSET existing : Cardinality(u) <= 1}
    /\ config_plugins \in RefSeqs(MaxConfigPlugins)
    /\ load_pc = "loading"
    /\ collected = << >>
    /\ runtime_plugins = << >>

\* The plugins are loaded: an empty configuration, stored.
LoaderDone ==
    /\ config_dir = DEFAULT_CONFIG_DIR
    /\ env_paths = << >>
    /\ existing = {}
    /\ unloadable = {}
    /\ config_plugins = << >>
    /\ load_pc = "done"
    /\ collected = << >>
    /\ runtime_plugins = << >>

\* No query made yet: nothing to handle, and both orders show the same.
OrderInit ==
    /\ results = [p \in Plugins |-> << >>]
    /\ handled = Len(PluginOrder)
    /\ alt = << list, row_visible, selected >>
    /\ queries = 0

HostInit(maxe) ==
    /\ hostPc = "idle"
    /\ entry = ""
    /\ exclusive = << >>
    /\ max_entries = maxe
    /\ todo = << >>
    /\ timeouts = {}
    /\ cur = << >>
    /\ list = [p \in Plugins |-> << >>]
    \* main_list is added after window.show_all() and shown with show(): its rows
    \* start hidden.
    /\ row_visible = [p \in Plugins |-> FALSE]
    /\ selected = [p \in Plugins |-> 0]
    /\ window_closed = FALSE
    /\ refreshes = 0

\* The computations the plugin has spawned.
Computations ==
    \/ \E h \in Handles : task_read(h)
    \/ \E h \in Handles : task_finish(h)
    \/ \E h \in Handles : task_panic(h)

\* The calls of a caller thread that is not the in-process host's or the
\* orchestrator's: each step leaves their state alone. At most `bound`
\* computations are started in a run.
thread_get_matches(t, bound) ==
    /\ NumSpawned + NumSpawning < bound
    /\ \E q \in Queries : get_matches_call(t, SchedPlugin, q)
    /\ UNCHANGED uiVars
thread_poll_matches(t, bound) ==
    /\ \E id \in 0..bound : poll_matches_call(t, SchedPlugin, id)
    /\ UNCHANGED uiVars
thread_handle_selection(t) == handle_selection_call(t, SchedPlugin) /\ UNCHANGED uiVars
thread_get_matches_load(t) == get_matches_load(t) /\ UNCHANGED uiVars
thread_get_matches_store(t) == get_matches_store(t) /\ UNCHANGED uiVars
thread_get_matches_spawn(t) == get_matches_spawn(t) /\ UNCHANGED uiVars
thread_get_matches_lock(t) == get_matches_lock(t) /\ UNCHANGED uiVars
thread_get_matches_assign(t) == get_matches_assign(t) /\ UNCHANGED uiVars
thread_get_matches_return(t) == get_matches_return(t) /\ UNCHANGED uiVars
thread_poll_matches_try_lock(t) == poll_matches_try_lock(t) /\ UNCHANGED uiVars
thread_poll_matches_inspect(t) == poll_matches_inspect(t) /\ UNCHANGED uiVars
thread_poll_matches_lock(t) == poll_matches_lock(t) /\ UNCHANGED uiVars
thread_poll_matches_take(t) == poll_matches_take(t) /\ UNCHANGED uiVars
thread_poll_matches_join(t) == poll_matches_join(t) /\ UNCHANGED uiVars
thread_handle_selection_lock(t) == handle_selection_lock(t) /\ UNCHANGED uiVars
thread_handle_selection_return(t) ==
    /\ \E r \in HandleResults : handle_selection_return(t, r)
    /\ UNCHANGED uiVars

\* A caller thread starts a get_matches or a poll_matches call, or takes the
\* next step of its call.
Caller(t, bound) ==
    \/ thread_get_matches(t, bound)
    \/ thread_poll_matches(t, bound)
    \/ thread_get_matches_load(t)
    \/ thread_get_matches_store(t)
    \/ thread_get_matches_spawn(t)
    \/ thread_get_matches_lock(t)
    \/ thread_get_matches_assign(t)
    \/ thread_get_matches_return(t)
    \/ thread_poll_matches_try_lock(t)
    \/ thread_poll_matches_inspect(t)
    \/ thread_poll_matches_lock(t)
    \/ thread_poll_matches_take(t)
    \/ thread_poll_matches_join(t)

\* A caller thread commits a selection, or takes the next step of that call.
Selector(t) ==
    \/ thread_handle_selection(t)
    \/ thread_handle_selection_lock(t)
    \/ thread_handle_selection_return(t)

\* Spec: a host that calls an initialised plugin from one thread (as the GTK
\* main loop of anyrun/src/main.rs does): its calls never overlap, the
\* plugin's computations run beside it.
Init ==
    /\ build \in Builds
    /\ SchedInit("done", TRUE)
    /\ HostInit(<< >>)
    /\ AppInit(FALSE)
    /\ OrderInit
    /\ LoaderDone
    /\ PluginsIdle
    /\ WorkerInit("provider")

Next ==
    \/ Caller(MainThread, MaxTasks)
    \/ Computations

Spec == Init /\ [][Next]_vars

\* The computation of handle h is the one in the plugin's slot: that of the task
\* get_matches stored last.
Newest(h) ==
    /\ threads[h].st # "free"
    /\ ANYRUN_INTERNAL_THREAD[threads[h].p] # None
    /\ ANYRUN_INTERNAL_THREAD[threads[h].p][1] = h

\* The steps of a get_matches call that is under way.
get_matches_steps(t) ==
    \/ thread_get_matches_load(t)
    \/ thread_get_matches_store(t)
    \/ thread_get_matches_spawn(t)
    \/ thread_get_matches_lock(t)
    \/ thread_get_matches_assign(t)
    \/ thread_get_matches_return(t)

\* SpecSchedLive: Spec with the operating system running every thread that can run,
\* so that a call of get_matches comes to its end and a spawned closure takes the
\* data lock when it is free, and with the author's function returning in the newest
\* task. A computation that has been superseded may go on for ever.
SpecSchedLive ==
    /\ Spec
    /\ WF_vars(get_matches_steps(MainThread))
    /\ \A h \in Handles : WF_vars(task_read(h))
    /\ \A h \in Handles : WF_vars(Newest(h) /\ task_finish(h))

\* SpecInit: the same host right after the plugin's init has returned, with
\* the initialisation thread spawned and not yet run; the host also commits
\* selections.
InitLoad ==
    /\ build \in Builds
    /\ SchedInit("spawned", FALSE)
    /\ HostInit(<< >>)
    /\ AppInit(FALSE)
    /\ OrderInit
    /\ LoaderDone
    /\ PluginsIdle
    /\ WorkerInit("provider")

NextLoad ==
    \/ Caller(MainThread, MaxInitTasks)
    \/ Selector(MainThread)
    \/ init_begin(SchedPlugin)
    \/ init_store(SchedPlugin)
    \/ Computations

SpecInit == InitLoad /\ [][NextLoad]_vars

\* SpecConc: a host that calls an initialised plugin from several threads:
\* the calls interleave step by step.
InitConc ==
    /\ build = "attr_ref"
    /\ SchedInit("done", TRUE)
    /\ HostInit(<< >>)
    /\ AppInit(FALSE)
    /\ OrderInit
    /\ LoaderDone
    /\ PluginsIdle
    /\ WorkerInit("provider")

NextConc ==
    \/ \E t \in Threads : Caller(t, MaxConcTasks)
    \/ Computations

SpecConc == InitConc /\ [][NextConc]_vars

\* SpecHost: the in-process host of anyrun/src/main.rs with its plugins loaded
\* and initialised: the user types and presses Return, the polling callbacks
\* fire, the plugins' computations run beside the main thread.
InitHost ==
    /\ build \in Builds
    /\ SchedInit("done", TRUE)
    /\ HostInit(<< >>)
    /\ AppInit(FALSE)
    /\ OrderInit
    /\ LoaderDone
    /\ PluginsIdle
    /\ WorkerInit("provider")

NextHost ==
    \/ \E q \in Queries : entry_changed(q)
    \/ refresh_matches_get
    \/ refresh_matches_register
    \/ \E cb \in Plugins \X (0..MaxRefreshes) : async_match_poll(cb)
    \/ \E cb \in Plugins \X (0..MaxRefreshes) : async_match(cb)
    \/ key_Return
    \/ key_Return_result
    \/ host_get_matches
    \/ host_poll_matches
    \/ host_handle_selection
    \/ Computations

SpecHost == InitHost /\ [][NextHost]_vars

\* What the main thread does next when it is inside refresh_matches, async_match
\* or the Return handler.
main_loop_runs ==
    \/ refresh_matches_get
    \/ refresh_matches_register
    \/ \E cb \in Plugins \X (0..MaxRounds) : async_match(cb)
    \/ key_Return_result
    \/ host_get_matches
    \/ host_poll_matches
    \/ host_handle_selection

\* SpecHostLive: the host with plugins whose functions take the data by `&mut`, the
\* user typing one text and pressing Return, the main thread running on, and the
\* GLib main loop firing the registered timeouts of every plugin again and again
\* (each is re-armed every millisecond while its callback returns Continue(true)).
InitHostLive ==
    /\ build = "attr_mut"
    /\ SchedInit("done", TRUE)
    /\ HostInit(<< >>)
    /\ AppInit(FALSE)
    /\ OrderInit
    /\ LoaderDone
    /\ PluginsIdle
    /\ WorkerInit("provider")

live_key_Return == key_Return_upto(MaxRounds)

NextHostLive ==
    \/ \E q \in {"fi"} : entry_changed(q)
    \/ refresh_matches_get
    \/ refresh_matches_register
    \/ \E cb \in Plugins \X (0..MaxRounds) : async_match_poll(cb)
    \/ \E cb \in Plugins \X (0..MaxRounds) : async_match(cb)
    \/ live_key_Return
    \/ key_Return_result
    \/ host_get_matches
    \/ host_poll_matches
    \/ host_handle_selection
    \/ Computations

SpecHostLive ==
    /\ InitHostLive /\ [][NextHostLive]_vars
    /\ WF_vars(main_loop_runs)
    /\ \A p \in Plugins : SF_vars(\E id \in 0..MaxRounds : async_match_poll(<< p, id >>))

\* SpecApp: the orchestrator of anyrun/src/app.rs with its plugin boxes: the
\* user types and presses keys, Responses arrive from the worker in any order,
\* and every component handles the messages of its own queue in its own time.
InitApp ==
    /\ build = "attr_ref"
    /\ SchedInit("done", TRUE)
    /\ HostInit(<< >>)
    /\ AppInit(FALSE)
    /\ OrderInit
    /\ LoaderDone
    /\ PluginsIdle
    /\ WorkerInit("provider")

NextApp ==
    \/ \E q \in Queries : user_types(q)
    \/ \E a \in {"Select", "Close"} : user_action(a)
    \/ \E p \in Plugins, q \in Queries : send_EntryChanged(p, q)
    \/ \E p \in Plugins, m \in MatchLists : Response_Matches(p, m)
    \/ \E p \in Plugins, r \in HandleResults : Response_Handled(p, r)
    \/ App_EntryChanged
    \/ App_Action_Select
    \/ App_Action_Close
    \/ App_MatchesLoaded
    \/ App_RowSelected
    \/ \E p \in Plugins : box_EntryChanged(p)
    \/ \E p \in Plugins : box_Enable(p)
    \/ \E p \in Plugins : box_Matches(p)
    \/ \E p \in Plugins, c \in (1..MaxAppMsgs) \X {UserMatches(q) : q \in Queries} :
           box_update_cmd(p, c)

SpecApp == InitApp /\ [][NextApp]_vars

\* One query's results handled by handle_matches in the plugins' order and in
\* the reverse order, from the display the query before has left.
order_query(res) ==
    /\ handled = Len(PluginOrder) /\ queries < MaxQueries
    /\ results' = res
    /\ handled' = 0
    /\ alt' = << list, row_visible, selected >>
    /\ queries' = queries + 1
    /\ UNCHANGED << schedVars, hostVars, appVars, workerVars, loaderVars, pluginVars >>

\* async_match: the next plugin's poll returns Ready and handle_matches runs.
order_arrive ==
    /\ handled < Len(PluginOrder)
    /\ LET k == handled + 1
           fwd == PluginOrder[k]
           bwd == PluginOrder[Len(PluginOrder) + 1 - k]
           d == handle_matches(fwd, results[fwd])
       IN /\ list' = d[1]
          /\ row_visible' = d[2]
          /\ selected' = d[3]
          /\ alt' = handle_matches_in(alt, bwd, results[bwd])
          /\ handled' = k
    /\ UNCHANGED << results, queries >>
    /\ UNCHANGED << hostPc, entry, exclusive, max_entries, todo, timeouts, cur,
                    window_closed, refreshes >>
    /\ UNCHANGED << schedVars, appVars, workerVars, loaderVars, pluginVars >>

InitOrder ==
    /\ build = "attr_ref"
    /\ SchedInit("done", TRUE)
    /\ \E maxe \in {<< >>} \cup {<< n >> : n \in 0..MaxShown} : HostInit(maxe)
    /\ AppInit(FALSE)
    /\ OrderInit
    /\ LoaderDone
    /\ PluginsIdle
    /\ WorkerInit("provider")

NextOrder ==
    \/ \E res \in [Plugins -> MatchLists] : order_query(res)
    \/ order_arrive

SpecOrder == InitOrder /\ [][NextOrder]_vars

\* The orchestrator's requests, the worker of either file and the provider.
InitWorker ==
    /\ build = "attr_ref"
    /\ SchedInit("done", TRUE)
    /\ HostInit(<< >>)
    /\ AppInit(FALSE)
    /\ OrderInit
    /\ LoaderDone
    /\ PluginsIdle
    /\ \E fn \in {"provider", "socket"} : WorkerInit(fn)

NextWorker ==
    \/ \E q \in Queries : user_types(q)
    \/ \E a \in {"Close"} : user_action(a)
    \/ App_EntryChanged
    \/ App_Action_Close
    \/ \E outcome \in SpawnOutcomes : worker_spawn(outcome)
    \/ worker_accept
    \/ worker_select_request
    \/ worker_select_closed
    \/ worker_select_response
    \/ worker_try_recv
    \/ worker_socket_recv
    \/ provider_responds
    \/ \E kind \in ConnErrors : provider_fails(kind)
    \/ app_dropped

SpecWorker == InitWorker /\ [][NextWorker]_vars

\* The worker's thread runs, and a provider that was spawned connects.
SpecWorkerLive == SpecWorker /\ WF_vars(\E outcome \in SpawnOutcomes : worker_spawn(outcome))
                             /\ WF_vars(worker_accept)
                             /\ WF_vars(worker_select_request)
                             /\ WF_vars(worker_select_response)
                             /\ WF_vars(worker_try_recv)
                             /\ WF_vars(worker_socket_recv)

\* SpecQuit: the worker and the orchestrator up to the end of the process: after
\* Action::Close the process may exit at any moment. The worker's steps are taken
\* as long as they can be.
NextQuit ==
    \/ NextWorker
    \/ host_exits

SpecQuit ==
    /\ InitWorker /\ [][NextQuit]_vars
    /\ WF_vars(\E outcome \in SpawnOutcomes : worker_spawn(outcome))
    /\ WF_vars(worker_accept)
    /\ WF_vars(worker_select_request)
    /\ WF_vars(worker_select_response)
    /\ WF_vars(worker_try_recv)
    /\ WF_vars(worker_socket_recv)

\* The user types while the worker of app.rs (provider.rs) starts and runs.
block_user_types(q) == user_types_upto(q, MaxTyped)

InitBlock ==
    /\ build = "attr_ref"
    /\ SchedInit("done", TRUE)
    /\ HostInit(<< >>)
    /\ AppInit(FALSE)
    /\ OrderInit
    /\ LoaderDone
    /\ PluginsIdle
    /\ WorkerInit("provider")

NextBlock ==
    \/ \E q \in Queries : block_user_types(q)
    \/ App_EntryChanged
    \/ \E outcome \in SpawnOutcomes : worker_spawn(outcome)
    \/ worker_accept
    \/ worker_select_request

SpecBlock == InitBlock /\ [][NextBlock]_vars

\* The loading of the plugins alone, over every configuration and file system.
InitPlugins ==
    /\ build = "attr_ref"
    /\ SchedInit("done", TRUE)
    /\ HostInit(<< >>)
    /\ AppInit(FALSE)
    /\ OrderInit
    /\ WorkerInit("provider")
    /\ LoaderInit
    /\ PluginsIdle

NextPlugins ==
    \/ load_plugin
    \/ load_store

SpecPlugins == InitPlugins /\ [][NextPlugins]_vars

\* The powermenu under a host that displays the matches of each text and hands
\* the selected row to the handler.
InitPowermenu ==
    /\ build = "attr_ref"
    /\ SchedInit("done", TRUE)
    /\ HostInit(<< >>)
    /\ AppInit(FALSE)
    /\ OrderInit
    /\ LoaderDone
    /\ WorkerInit("provider")
    /\ PowermenuInit(PowerConfigs)
    /\ RandrInit({{}})

NextPowermenu ==
    \/ \E input \in MenuInputs : powermenu_get_matches(input)
    \/ \E i \in 1..(MaxMenuRows + 1), ok \in BOOLEAN :
           i <= Len(pm_shown) /\ powermenu_handler(pm_shown[i], ok)

SpecPowermenu == InitPowermenu /\ [][NextPowermenu]_vars

\* The randr plugin under such a host, for every set of monitors.
InitRandr ==
    /\ build = "attr_ref"
    /\ SchedInit("done", TRUE)
    /\ HostInit(<< >>)
    /\ AppInit(FALSE)
    /\ OrderInit
    /\ LoaderDone
    /\ WorkerInit("provider")
    /\ PowermenuInit({default_confirm})
    /\ RandrInit(SUBSET MonitorIds)

NextRandr ==
    \/ \E prefixed \in BOOLEAN, kept \in Kept(randr_all_matches) :
           randr_get_matches(prefixed, kept)
    \/ \E selection \in rr_shown : randr_handler(selection)

SpecRandr == InitRandr /\ [][NextRandr]_vars

\* ------------------------------------------------------------------ claims
GetPcs == {"g_load", "g_store", "g_spawn", "g_lock", "g_assign", "g_ret"}
Running(h) == threads[h].st \in {"start", "computing"}
PollReturned(t) == pc[t] = "idle" /\ ret[t].op = "poll_matches"

\* C1: task supersession. Under one caller thread, a poll_matches call made with
\* an id that get_matches returned before its latest return comes back
\* Cancelled (so never Ready), whatever state that earlier task's computation is in.
C1_Supersession ==
    \A t \in Threads :
        (PollReturned(t) /\ loc[t].stale) => ret[t].kind = "Cancelled"

\* A stale id was polled after its own computation had finished, and the
\* answer was Cancelled.
C1_Witness ==
    \E t \in Threads :
        /\ PollReturned(t) /\ loc[t].stale /\ ret[t].kind = "Cancelled"
        /\ \E h \in Handles : threads[h].st = "finished" /\ threads[h].id = loc[t].id

\* C2: exactly-once delivery. Under one caller thread, when poll_matches has
\* returned Ready the slot is empty, and a poll_matches call with an id that
\* was already answered Ready comes back Cancelled.
C2_ExactlyOnce ==
    \A t \in Threads :
        /\ (PollReturned(t) /\ ret[t].kind = "Ready")
               => ANYRUN_INTERNAL_THREAD[SchedPlugin] = None
        /\ (PollReturned(t) /\ loc[t].deliv) => ret[t].kind = "Cancelled"

\* The id of a delivered task was polled a second time.
C2_Witness ==
    \E t \in Threads : PollReturned(t) /\ loc[t].deliv /\ ret[t].kind = "Cancelled"

\* C4: under one caller thread, each get_matches call returns an id exactly one
\* greater than the call before it on that plugin.
C4_Monotonic ==
    \A p \in Plugins : \A i \in 1..(Len(issued[p]) - 1) :
        issued[p][i + 1] = issued[p][i] + 1

\* Three calls have returned.
C4_Witness == Len(issued[SchedPlugin]) >= 3

\* C6: get_matches returns at once. Every step of a get_matches call can be
\* taken whatever the state of the computations (the one it started, and the
\* earlier ones still running), and no step of the call changes an earlier
\* computation: the tracked one is replaced, not joined and not stopped.
C6_Immediate ==
    /\ [](\A t \in Threads : pc[t] \in GetPcs => ENABLED get_matches_step(t))
    /\ [][\A t \in Threads :
            get_matches_step(t) =>
                /\ \A h \in Handles : threads[h].st # "free" => threads'[h] = threads[h]
                /\ pc[t] = "g_assign" =>
                       ANYRUN_INTERNAL_THREAD'[loc[t].p] = Some(loc[t].handle, loc[t].current_id)
         ]_vars

\* get_matches has returned while the computation it started and an earlier
\* computation are both still running.
C6_Witness ==
    \E t \in Threads :
        /\ pc[t] = "idle" /\ ret[t].op = "get_matches"
        /\ Running(ret[t].h)
        /\ \E h \in Handles : h # ret[t].h /\ Running(h)

\* C3: submit and poll are atomic with respect to each other. Under several
\* caller threads, a poll_matches(id) that returns Ready hands out the result
\* of the computation whose task id is id.
C3_ReadyIsOwnTask ==
    \A t \in Threads :
        (PollReturned(t) /\ ret[t].kind = "Ready") => threads[ret[t].h].id = loc[t].id

\* C5: poll_matches is non-blocking. Under several caller threads, a call that
\* reaches its join finds the thread it joins already ended, so it never waits
\* for a computation; and a call that returns while the slot tracks its id and
\* an unfinished computation returns Pending.
C5_NonBlocking ==
    /\ [](\A t \in Threads : pc[t] = "p_join" => is_finished(loc[t].handle))
    /\ [][\A t \in Threads :
            LET slot == ANYRUN_INTERNAL_THREAD[loc[t].p] IN
            ( /\ poll_matches_step(t) /\ pc'[t] = "idle"
              /\ slot # None )
            => ( (slot[2] = loc[t].id /\ ~is_finished(slot[1]))
                     => ret'[t].kind = "Pending" )
         ]_vars

\* C7: a get_matches call made before the initialisation has stored the data
\* starts a computation that does not wait for the initialisation (it is never
\* waiting to start while the initialisation holds the data lock) and that
\* finishes with an empty match list.
C7_EmptyBeforeInit ==
    \A h \in Handles :
        threads[h].pre =>
            /\ threads[h].st = "start" => dataLock[threads[h].p].writer # "init"
            /\ threads[h].st = "finished" => threads[h].res = <<>>

\* C8: a handle_selection call made before the initialisation has stored the
\* data neither aborts the process on the missing data nor waits for the
\* initialisation to give the data lock back.
C8_HandlerTolerant ==
    \A t \in Threads :
        (pc[t] = "h_lock" /\ loc[t].pre) =>
            /\ ~aborted
            /\ dataLock[loc[t].p].writer # "init"

\* The polling callback of plugin o's tracked task is registered and that task
\* was started for the query text q: o's result for q is still to be displayed.
AwaitsDisplay(o, q) ==
    LET slot == ANYRUN_INTERNAL_THREAD[o] IN
    IF slot = None THEN FALSE
    ELSE << o, slot[2] >> \in timeouts /\ threads[slot[1]].q = q

\* C9: plugin isolation. When the match computation of one plugin has panicked
\* for a query, the host stays alive as long as another plugin's result for
\* that query is still to be delivered and displayed.
C9_Isolation ==
    \A h \in Handles :
        threads[h].st = "panicked" =>
            \A o \in Plugins \ {threads[h].p} :
                AwaitsDisplay(o, threads[h].q) => ~aborted

\* An Enable message is waiting in the box's input queue.
EnablePending(p) == \E i \in 1..Len(inbox[p]) : inbox[p][i].type = "Enable"

ResultHandled(p) == last_result'.n = last_result.n + 1 /\ last_result'.p = p

RefreshProcessed ==
    \E p \in Plugins :
        /\ Len(inbox'[p]) = Len(inbox[p]) + 1
        /\ inbox'[p][Len(inbox'[p])].type = "Enable"

\* C12: processing a Handled with Refresh(_) adds exactly one request to
\* those issued, a Query with the text the entry holds at that moment, and
\* neither ends the session nor queues its end.
C12_RefreshQueries ==
    [][RefreshProcessed =>
          /\ Len(tx') = Len(tx) + 1
          /\ SubSeq(tx', 1, Len(tx)) = tx
          /\ tx'[Len(tx')].type = "Query"
          /\ tx'[Len(tx')].arg = app_entry
          /\ ~shutdown' /\ ending' = ending /\ app_inputs' = app_inputs]_vars

\* A Refresh(true) of A was processed while the EntryChanged of the text the
\* user typed last was still queued: the Query it caused carries that text.
C12_Witness ==
    /\ holder = "A" /\ ~shutdown /\ ~ending
    /\ app_entry = "fir"
    /\ Len(tx) = 2 /\ tx[1] = Msg("Query", "fi") /\ tx[2] = Msg("Query", "fir")
    /\ app_inputs # << >> /\ app_inputs[1].type = "EntryChanged"

\* C13: when an enabled box handles a result for its current input, its list
\* becomes the received matches and nothing else, it is visible exactly when
\* they are not empty, and the list and visibility of every other plugin's
\* box are as before.
C13_Replaces ==
    [][\A p \in Plugins :
          ( /\ ResultHandled(p)
            /\ plugin_boxes[p].enabled /\ last_result'.id = plugin_boxes[p].id )
          => /\ plugin_boxes'[p].matches = last_result'.matches
             /\ plugin_boxes'[p].visible = (last_result'.matches # << >>)
             /\ \A o \in Plugins \ {p} :
                    /\ plugin_boxes'[o].matches = plugin_boxes[o].matches
                    /\ plugin_boxes'[o].visible = plugin_boxes[o].visible]_vars

\* The box of A, which displayed two rows, has taken a one-row result and
\* displays that row alone, next to the rows of B.
C13_Witness ==
    /\ last_result.p = "A" /\ last_result.taken
    /\ last_result.had = 2
    /\ Len(last_result.matches) = 1
    /\ plugin_boxes["A"].matches = last_result.matches /\ plugin_boxes["A"].visible
    /\ plugin_boxes["B"].matches # << >>

\* The box of A, which displayed rows, has taken an empty result and is hidden.
C13_WitnessEmpty ==
    /\ last_result.p = "A" /\ last_result.taken
    /\ last_result.had > 0 /\ last_result.matches = << >>
    /\ plugin_boxes["A"].matches = << >> /\ ~plugin_boxes["A"].visible

\* C14: the ids tell the inputs of a box apart (no command carries an id
\* above the box's, and the commands of one box have different ids, the
\* box's id being that of its latest EntryChanged), and a result whose id is
\* not the box's id, or that a disabled box handles, is discarded: the box,
\* its rows and its visibility stay as they were and nothing is announced.
C14_StaleDiscarded ==
    /\ [](\A p \in Plugins : \A c \in commands[p] :
            /\ c[1] <= plugin_boxes[p].id
            /\ \A d \in commands[p] : d[1] = c[1] => d = c)
    /\ [][\A p \in Plugins :
            ( /\ ResultHandled(p)
              /\ ~plugin_boxes[p].enabled \/ last_result'.id # plugin_boxes[p].id )
            => /\ ~last_result'.taken
               /\ plugin_boxes' = plugin_boxes
               /\ app_selected' = app_selected
               /\ app_inputs' = app_inputs]_vars

\* The box of A displays the rows of its latest input, and the result of
\* the input before, which arrived after them, has been discarded.
C14_Witness ==
    /\ last_result.p = "A" /\ ~last_result.taken
    /\ plugin_boxes["A"].enabled /\ last_result.id < plugin_boxes["A"].id
    /\ last_result.matches = UserMatches("fi")
    /\ last_result.had = 1
    /\ plugin_boxes["A"].matches = UserMatches("fir")

\* C15: once the results of every plugin for a query have been handled, the
\* lists and the visibility of the plugins are the same whether the results
\* arrived in the plugins' order or in the reverse order.
C15_OrderIrrelevant ==
    handled = Len(PluginOrder) => (alt[1] = list /\ alt[2] = row_visible)

\* C16: from the moment a Handled with Close, Copy or Stdout has been
\* processed, the only request the orchestrator still issues is the Quit of
\* the closing session: no further Query and no further Handle.
C16_NoRequestAfterEnd ==
    [][(ending /\ Len(tx') > Len(tx)) => tx'[Len(tx')].type = "Quit"]_vars

\* C17: when the session has ended after a handler returned Stdout(bytes),
\* the bytes have been written to the standard output exactly once.
C17_StdoutOnce ==
    (shutdown /\ post_run_action = "Stdout") => stdout = 1

\* C18: once a send or a receive on the connection has failed with an error
\* other than WouldBlock, the worker has left its loop.
C18_FailureFatal ==
    failed => wpc = "done"

\* C19: an EntryChanged the orchestrator is about to process never finds the
\* channel full: the blocking_send of its Query returns at once.
C19_NeverBlocks ==
    (~shutdown /\ app_inputs # << >> /\ Head(app_inputs).type = "EntryChanged")
        => (RxClosed \/ CanSend)

\* The responses the provider has written, in the order of their arrival.
Arrived == [k \in 1..responses |-> Msg("Response", k)]

\* C20: the worker relays faithfully. A request reaches the provider only as
\* the oldest request of the channel, which it then leaves, so the requests
\* are forwarded once each and in issue order, whatever responses are still
\* to come; a request leaves the channel unforwarded only when its send
\* fails, which ends the worker. The responses emitted followed by those
\* not yet read are the responses that arrived, in order. And while the
\* worker runs, every request issued and every response arrived is relayed
\* in the end.
C20_Relay ==
    /\ [][ /\ Len(socket_out') # Len(socket_out) =>
                 /\ tx # << >>
                 /\ socket_out' = Append(socket_out, Head(tx))
                 /\ tx' = Tail(tx)
           /\ Len(tx') < Len(tx) =>
                 \/ socket_out' = Append(socket_out, Head(tx))
                 \/ conn # "up" /\ wpc' = "done" ]_vars
    /\ [](emitted \o socket_in = Arrived)
    /\ (tx # << >>) ~> (tx = << >> \/ wpc = "done")
    /\ (socket_in # << >>) ~> (socket_in = << >> \/ wpc = "done")

\* Two different requests have been forwarded in the order of their issue,
\* the second one before any response was read, and the responses that came
\* since are emitted or waiting in the order of their arrival.
C20_Witness ==
    /\ socket_out = << Msg("Query", "fi"), Msg("Query", "fir") >>
    /\ emitted = << Msg("Response", 1) >>
    /\ socket_in = << Msg("Response", 2) >>
    /\ tx = << >> /\ Connected

\* C21: when the provider cannot be spawned, the failure has been printed
\* exactly once, the worker has returned, and no request has been forwarded
\* and no response emitted, whatever requests were issued meanwhile.
C21_SpawnFailure ==
    spawned \in {"NotFound", "Other"} =>
        /\ spawn_reports = 1
        /\ wpc = "done"
        /\ socket_out = << >> /\ emitted = << >>

\* The spawn failed with NotFound while a Query was waiting in the channel.
C21_Witness ==
    /\ spawned = "NotFound" /\ spawn_reports = 1 /\ wpc = "done"
    /\ tx # << >> /\ socket_out = << >>

\* The configured references whose library can be found and loaded.
Loadable(plugin_path) == resolve(plugin_path) # << >> /\ loads(resolve(plugin_path))
references(views) == [i \in 1..Len(views) |-> views[i].reference]

\* C22: a plugin that fails to load is skipped: once the loading is over, the host
\* runs with exactly the configured plugins that could be loaded, each initialised.
C22_FailedSkipped ==
    load_pc # "loading" =>
        /\ load_pc = "done"
        /\ references(runtime_plugins) = SelectSeq(config_plugins, Loadable)
        /\ \A i \in 1..Len(runtime_plugins) : runtime_plugins[i].initialised

\* The directories searched, and their rank in the search: the directories of
\* ANYRUN_PLUGINS, the user's plugin directory, the system-wide one.
SearchedDirs ==
    {env_paths[i] : i \in 1..Len(env_paths)}
        \cup {PluginsDir(config_dir), PluginsDir(DEFAULT_CONFIG_DIR)}
Rank(dir) ==
    IF \E i \in 1..Len(env_paths) : env_paths[i] = dir THEN 0
    ELSE IF dir = PluginsDir(config_dir) THEN 1
    ELSE 2

\* C23: an absolute reference is loaded from the path it names; a relative one from
\* its candidate in a searched directory that exists, no candidate in a directory
\* searched earlier existing, the user's plugin directory being searched before the
\* system-wide one.
C23_Resolution ==
    \A i \in 1..Len(collected) :
        LET view == collected[i]
        IN  IF is_absolute(view.reference) THEN view.path = view.reference
            ELSE \E dir \in SearchedDirs :
                    /\ view.path = dir \o view.reference
                    /\ view.path \in existing
                    /\ \A earlier \in SearchedDirs :
                          Rank(earlier) < Rank(dir) =>
                              earlier \o view.reference \notin existing

\* A relative reference found in the user's plugin directory and in the system-wide
\* one is loaded from the user's, and an absolute one from where it points.
C23_Witness ==
    /\ config_dir = UserConfigDir
    /\ \E i \in 1..Len(collected) :
          /\ ~is_absolute(collected[i].reference)
          /\ collected[i].path = PluginsDir(UserConfigDir) \o collected[i].reference
          /\ PluginsDir(DEFAULT_CONFIG_DIR) \o collected[i].reference \in existing
    /\ \E i \in 1..Len(collected) : is_absolute(collected[i].reference)

\* The orchestrator handles an Action(Select).
SelectProcessed ==
    /\ app_inputs # << >> /\ Head(app_inputs) = Msg("Action", "Select")
    /\ app_inputs' = Tail(app_inputs)

\* C24: a Handle request is sent only while a row is selected, and it carries the
\* match of a selected row together with the plugin whose list shows that row; a
\* Select handled with no row selected sends no request.
C24_HandleSelected ==
    [][ /\ (Len(tx') > Len(tx) /\ tx'[Len(tx')].type = "Handle") =>
            /\ SelectProcessed
            /\ \E p \in Plugins :
                  /\ app_selected[p] \in 1..Len(plugin_boxes[p].matches)
                  /\ tx'[Len(tx')].arg = << p, plugin_boxes[p].matches[app_selected[p]] >>
        /\ (SelectProcessed /\ \A p \in Plugins : app_selected[p] = 0) =>
               Len(tx') = Len(tx)
      ]_vars

\* A Handle for the selected row of the second plugin's list has been sent.
C24_Witness ==
    /\ Len(tx) = 1 /\ tx[1].type = "Handle"
    /\ tx[1].arg[1] = PluginOrder[2]
    /\ app_selected[PluginOrder[2]] = 1

\* C25: a superseded computation that never finishes does not keep the newest task
\* from completing: the computation in the slot comes to its end, unless it is
\* superseded in turn or the process has aborted.
C25_NewestCompletes ==
    \A h \in Handles : Newest(h) ~> (~Newest(h) \/ is_finished(h) \/ aborted)

\* The positions of a get_matches call that has read the id it will return.
HoldsId == {"g_store", "g_spawn", "g_lock", "g_assign", "g_ret"}

\* C26: two get_matches calls on one plugin that overlap return distinct ids: two
\* calls under way at once never hold the same id to return, and no id is returned
\* twice.
C26_DistinctIds ==
    /\ \A t, u \in Threads :
          ( /\ t # u /\ pc[t] \in HoldsId /\ pc[u] \in HoldsId
            /\ loc[t].p = loc[u].p )
          => loc[t].current_id # loc[u].current_id
    /\ \A p \in Plugins : \A i, j \in 1..Len(issued[p]) :
          i # j => issued[p][i] # issued[p][j]

\* The callback cb polls the task get_matches returned last for its plugin.
Latest(cb) == cb[2] = ANYRUN_INTERNAL_ID_COUNTER[cb[1]] - 1

\* The computation of plugin p's latest task has returned, or its result was taken.
LatestDone(p) ==
    LET slot == ANYRUN_INTERNAL_THREAD[p] IN
    slot = None \/ threads[slot[1]].st = "finished"

\* The host is gone: the process has aborted or the window was closed.
HostGone == aborted \/ window_closed

\* C27: in the in-process host every polling callback stops in the end, provided
\* the computation of every plugin's latest task finishes (each slot ends up empty
\* or with a thread that has returned); the callback of the latest task stops on
\* Ready, having displayed the result, and a callback whose task was superseded
\* stops on Cancelled and displays nothing.
C27_CallbacksStop ==
    /\ <>[](\A p \in Plugins : LatestDone(p)) => <>[](HostGone \/ timeouts = {})
    /\ [][\A cb \in timeouts :
            cb \notin timeouts' =>
                IF Latest(cb)
                THEN /\ ret[MainThread].kind = "Ready"
                     /\ << list', row_visible', selected' >>
                            = handle_matches(cb[1], ret[MainThread].val)
                ELSE /\ ret[MainThread].kind = "Cancelled"
                     /\ UNCHANGED << list, row_visible, selected >>
         ]_vars

\* The worker has written Request::Quit to the socket.
QuitForwarded == \E i \in 1..Len(socket_out) : socket_out[i].type = "Quit"

\* There is no provider to tell: it was never started, or the connection to it broke.
ProviderGone == spawned \in {"NotFound", "Other"} \/ conn # "up"

\* C28: once Action::Close has run, the worker forwards the Quit to the provider in
\* the end, as long as there is a provider connected to forward it to.
C28_QuitForwarded == CloseRan ~> (QuitForwarded \/ ProviderGone)

\* C29: Quit is the last request the worker forwards: once it is forwarded the
\* worker is out of its loop and the socket file is removed, and from then on
\* nothing is forwarded and no response is emitted.
C29_QuitLast ==
    /\ [](QuitForwarded =>
            /\ socket_out[Len(socket_out)].type = "Quit"
            /\ wpc = "done"
            /\ ~socket_file)
    /\ [][QuitForwarded =>
            /\ Len(socket_out') = Len(socket_out)
            /\ Len(emitted') = Len(emitted)
            /\ wpc' = wpc ]_vars

\* Quit was forwarded after another request, and a response that had arrived by
\* then stays unread.
C29_Witness ==
    /\ QuitForwarded
    /\ Len(socket_out) >= 2
    /\ socket_in # << >>
    /\ wpc = "done" /\ ~socket_file

\* C30: when the orchestrator's side of the channel is closed without a Quit, the
\* worker terminates.
C30_ClosedTerminates == tx_dropped ~> wpc = "done"

\* C31: the socket file the worker bound is removed on every path by which the
\* worker returns: once the worker has returned the file is gone.
C31_SocketFileRemoved == wpc = "done" => ~socket_file

\* C32: a plugin box is visible only if it is enabled and its list of matches is
\* not empty.
C32_VisibleHasRows ==
    \A p \in Plugins :
        plugin_boxes[p].visible =>
            plugin_boxes[p].enabled /\ plugin_boxes[p].matches # << >>

\* The number of match rows displayed, over the lists of all plugins.
DisplayedRows == Len(combined_matches(list, 1))

\* C33: with max_entries set to n, after every handle_matches call at most n
\* match rows are displayed over all plugins, and every plugin whose list has no
\* row is hidden.
C33_MaxEntries ==
    max_entries # << >> =>
        /\ DisplayedRows <= max_entries[1]
        /\ \A p \in Plugins : list[p] = << >> => ~row_visible[p]

\* Every plugin's result has been handled, the results held more rows than
\* max_entries allows, exactly max_entries rows are displayed, and a plugin whose
\* rows were all cut is hidden.
C33_Witness ==
    /\ max_entries # << >> /\ handled = Len(PluginOrder) /\ queries > 0
    /\ Len(combined_matches(results, 1)) > max_entries[1]
    /\ DisplayedRows = max_entries[1]
    /\ \E p \in Plugins : results[p] # << >> /\ list[p] = << >> /\ ~row_visible[p]

\* The plugins whose list has a selected row, in the orchestrator's boxes and in
\* the in-process host's lists.
WithSelection == {p \in Plugins : app_selected[p] > 0}
HostWithSelection == {p \in Plugins : selected[p] > 0}

\* C34: at any time at most one match row is selected over the lists of all
\* plugins: a row selected in one plugin's list leaves no row selected in any
\* other plugin's list.
C34_OneSelection ==
    /\ Cardinality(WithSelection) <= 1
    /\ Cardinality(HostWithSelection) <= 1

\* The in-process host's half of C34 alone.
HostOneSelection == Cardinality(HostWithSelection) <= 1

\* The row is the Confirm entry get_confirm_matches offers for `action`.
ConfirmEntry(row, action) == row = get_confirm_matches(action)[1]
\* The row is the Cancel entry.
CancelEntry(row) == row.title = "Cancel" /\ row.description = "Abort"

\* C35: the command of a power action configured with confirm = true is run only
\* by a handler call whose selection is the Confirm entry offered for that
\* pending action; a call that selects another entry while the action is pending
\* runs nothing, and one that selects Cancel (no error being displayed) also
\* clears the pending action and returns Refresh(false).
C35_ConfirmFirst ==
    pm_last.called =>
        /\ \A action \in PowerAction :
               (pm_last.executed = << action >> /\ power_config[action]) =>
                   (pm_last.pending = << action >> /\ ConfirmEntry(pm_last.selection, action))
        /\ (pm_last.pending # << >> /\ ~pm_last.error /\ CancelEntry(pm_last.selection)) =>
               /\ pm_last.executed = << >>
               /\ pm_last.result = "Refresh(false)"
               /\ pending_action = << >>

\* C36: a match the randr plugin offered while a monitor was being positioned,
\* selected while that monitor is still being positioned, is decoded by the
\* handler to the Configure action and the relative monitor it was built from,
\* and that monitor is found; the match with the id u64::MAX, and no other, is
\* taken as Back.
C36_IdRoundTrip ==
    (rr_last.called /\ rr_last.inner # << >> /\ rr_last.offered_in = rr_last.inner) =>
        IF rr_last.selection.id = u64_MAX
        THEN rr_last.selection.configure = "Back" /\ rr_last.kind = "Refresh(false)"
        ELSE /\ rr_last.selection.configure # "Back"
             /\ rr_last.kind = "Close"
             /\ rr_last.configure = rr_last.selection.configure
             /\ rr_last.mon = rr_last.selection.mon

====
